---- MODULE Spec2Model ----
(***************************************************************************)
(* A model of the sustlang execution engine (src/src/sustlang): the value  *)
(* model, the two-tier variable store (RunningScript::get_var / set_var /  *)
(* drop_var), the command dispatch (Command::execute) and the function     *)
(* runner (Function::execute) with its temp-variable drop pass.            *)
(*                                                                         *)
(* Texts (type names, literals, strings) are sequences of byte codes; the  *)
(* tokens of a command are TLA+ strings whose bytes are given by Chars.    *)
(***************************************************************************)
EXTENDS Integers, Sequences, FiniteSets, TLC

VARIABLES
    variables,   \* RunningScript.variables: the global table, name -> Variable
    stacks,      \* per task: the active Function::execute frames, innermost last
    status,      \* per task: "running" | "ok" | "failed" | "panicked"
    error,       \* per task: the (ScriptError, Command) pair run() returns
    streams,     \* per stream handle: the bytes written to it (output) or left to read (input)
    main_pool,   \* the commands the top-level list of the script is written with
    script       \* Script::parse: the parsed lines, and what cut_funcs made of them

vars == <<variables, stacks, status, error, streams, main_pool, script>>

----------------------------------------------------------------------------
(* Bounds of the model *)

\* number of commands of the top-level list that are executed
MaxMain == 4
\* depth of nested Function::execute frames (main included)
MaxDepth == 3
\* invocations one WHILE command makes
MaxWhile == 3
\* tasks started by NEW_THREAD
MaxThreads == 1
\* lines of a script handed to Script::parse
MaxLines == 4

----------------------------------------------------------------------------
(* Texts *)

\* ASCII bytes of the tokens the model's scripts are written with
Chars(tok) ==
    CASE tok = "" -> <<>>
      [] tok = "0" -> <<48>>
      [] tok = "1" -> <<49>>
      [] tok = "2" -> <<50>>
      [] tok = "3" -> <<51>>
      [] tok = "5" -> <<53>>
      [] tok = "7" -> <<55>>
      [] tok = "9" -> <<57>>
      [] tok = "a" -> <<97>>
      [] tok = "b" -> <<98>>
      [] tok = "c" -> <<99>>
      [] tok = "e" -> <<101>>
      [] tok = "f" -> <<102>>
      [] tok = "g" -> <<103>>
      [] tok = "h" -> <<104>>
      [] tok = "i" -> <<105>>
      [] tok = "j" -> <<106>>
      [] tok = "k" -> <<107>>
      [] tok = "l" -> <<108>>
      [] tok = "m" -> <<109>>
      [] tok = "n" -> <<110>>
      [] tok = "o" -> <<111>>
      [] tok = "p" -> <<112>>
      [] tok = "q" -> <<113>>
      [] tok = "r" -> <<114>>
      [] tok = "s" -> <<115>>
      [] tok = "t" -> <<116>>
      [] tok = "u" -> <<117>>
      [] tok = "v" -> <<118>>
      [] tok = "x" -> <<120>>
      [] tok = "y" -> <<121>>
      [] tok = "-3" -> <<45, 51>>
      [] tok = "42" -> <<52, 50>>
      [] tok = "hi" -> <<104, 105>>
      [] tok = "in" -> <<105, 110>>
      [] tok = "kv" -> <<107, 118>>
      [] tok = "mv" -> <<109, 118>>
      [] tok = "nb" -> <<110, 98>>
      [] tok = "o1" -> <<111, 49>>
      [] tok = "s1" -> <<115, 49>>
      [] tok = "s2" -> <<115, 50>>
      [] tok = "zz" -> <<122, 122>>
      [] tok = "(5)" -> <<40, 53, 41>>
      [] tok = "(h)" -> <<40, 104, 41>>
      [] tok = "1.5" -> <<49, 46, 53>>
      [] tok = "104" -> <<49, 48, 52>>
      [] tok = "[5]" -> <<91, 53, 93>>
      [] tok = "a.1" -> <<97, 46, 49>>
      [] tok = "cin" -> <<99, 105, 110>>
      [] tok = "g.0" -> <<103, 46, 48>>
      [] tok = "inf" -> <<105, 110, 102>>
      [] tok = "int" -> <<105, 110, 116>>
      [] tok = "loc" -> <<108, 111, 99>>
      [] tok = "out" -> <<111, 117, 116>>
      [] tok = "str" -> <<115, 116, 114>>
      [] tok = "wat" -> <<119, 97, 116>>
      [] tok = "(hi)" -> <<40, 104, 105, 41>>
      [] tok = "[hi]" -> <<91, 104, 105, 93>>
      [] tok = "args" -> <<97, 114, 103, 115>>
      [] tok = "body" -> <<98, 111, 100, 121>>
      [] tok = "bool" -> <<98, 111, 111, 108>>
      [] tok = "bump" -> <<98, 117, 109, 112>>
      [] tok = "char" -> <<99, 104, 97, 114>>
      [] tok = "cout" -> <<99, 111, 117, 116>>
      [] tok = "decl" -> <<100, 101, 99, 108>>
      [] tok = "each" -> <<101, 97, 99, 104>>
      [] tok = "head" -> <<104, 101, 97, 100>>
      [] tok = "map[" -> <<109, 97, 112, 91>>
      [] tok = "mine" -> <<109, 105, 110, 101>>
      [] tok = "more" -> <<109, 111, 114, 101>>
      [] tok = "none" -> <<110, 111, 110, 101>>
      [] tok = "nope" -> <<110, 111, 112, 101>>
      [] tok = "null" -> <<110, 117, 108, 108>>
      [] tok = "once" -> <<111, 110, 99, 101>>
      [] tok = "pair" -> <<112, 97, 105, 114>>
      [] tok = "peek" -> <<112, 101, 101, 107>>
      [] tok = "setg" -> <<115, 101, 116, 103>>
      [] tok = "stop" -> <<115, 116, 111, 112>>
      [] tok = "true" -> <<116, 114, 117, 101>>
      [] tok = "70000" -> <<55, 48, 48, 48, 48>>
      [] tok = "count" -> <<99, 111, 117, 110, 116>>
      [] tok = "dropg" -> <<100, 114, 111, 112, 103>>
      [] tok = "early" -> <<101, 97, 114, 108, 121>>
      [] tok = "false" -> <<102, 97, 108, 115, 101>>
      [] tok = "float" -> <<102, 108, 111, 97, 116>>
      [] tok = "ftemp" -> <<102, 116, 101, 109, 112>>
      [] tok = "hello" -> <<104, 101, 108, 108, 111>>
      [] tok = "list[" -> <<108, 105, 115, 116, 91>>
      [] tok = "outer" -> <<111, 117, 116, 101, 114>>
      [] tok = "twice" -> <<116, 119, 105, 99, 101>>
      [] tok = "(true)" -> <<40, 116, 114, 117, 101, 41>>
      [] tok = "args.0" -> <<97, 114, 103, 115, 46, 48>>
      [] tok = "args.1" -> <<97, 114, 103, 115, 46, 49>>
      [] tok = "args.5" -> <<97, 114, 103, 115, 46, 53>>
      [] tok = "broken" -> <<98, 114, 111, 107, 101, 110>>
      [] tok = "nofunc" -> <<110, 111, 102, 117, 110, 99>>
      [] tok = "result" -> <<114, 101, 115, 117, 108, 116>>
      [] tok = "shadow" -> <<115, 104, 97, 100, 111, 119>>
      [] tok = "string" -> <<115, 116, 114, 105, 110, 103>>
      [] tok = "integer" -> <<105, 110, 116, 101, 103, 101, 114>>
      [] tok = "map[i,i]" -> <<109, 97, 112, 91, 105, 44, 105, 93>>
      [] tok = "in_stream" -> <<105, 110, 95, 115, 116, 114, 101, 97, 109>>
      [] tok = "list[int]" -> <<108, 105, 115, 116, 91, 105, 110, 116, 93>>
      [] tok = "optional[" -> <<111, 112, 116, 105, 111, 110, 97, 108, 91>>
      [] tok = "1073741824" -> <<49, 48, 55, 51, 55, 52, 49, 56, 50, 52>>
      [] tok = "list[char]" -> <<108, 105, 115, 116, 91, 99, 104, 97, 114, 93>>
      [] tok = "out_stream" -> <<111, 117, 116, 95, 115, 116, 114, 101, 97, 109>>
      [] tok = "optional[int]" ->
            <<111, 112, 116, 105, 111, 110, 97, 108, 91, 105, 110, 116, 93>>
      [] tok = "map[int,string]" ->
            <<109, 97, 112, 91, 105, 110, 116, 44, 115, 116, 114, 105, 110, 103, 93>>
      [] tok = "map[string,int]" ->
            <<109, 97, 112, 91, 115, 116, 114, 105, 110, 103, 44, 105, 110, 116, 93>>
      [] tok = "9223372036854775807" ->
            <<57, 50, 50, 51, 51, 55, 50, 48, 51, 54, 56, 53, 52, 55, 55, 53, 56, 48, 55>>
      [] tok = "map[list[int],string]" ->
            <<109, 97, 112, 91, 108, 105, 115, 116, 91, 105, 110, 116, 93, 44, 115, 116,
              114, 105, 110, 103, 93>>
      [] tok = "map[int,map[string,int]]" ->
            <<109, 97, 112, 91, 105, 110, 116, 44, 109, 97, 112, 91, 115, 116, 114, 105,
              110, 103, 44, 105, 110, 116, 93, 93>>

\* str::starts_with
StartsWith(text, prefix) ==
    /\ Len(text) >= Len(prefix)
    /\ SubSeq(text, 1, Len(prefix)) = prefix

\* [T]::join(" ") of the texts of a token sequence
RECURSIVE JoinSpace(_)
JoinSpace(toks) ==
    IF toks = <<>> THEN <<>>
    ELSE IF Len(toks) = 1 THEN Chars(toks[1])
    ELSE Chars(toks[1]) \o <<32>> \o JoinSpace(Tail(toks))

\* str::is_char_boundary on the bytes of a text: the start, the end, or a byte that
\* does not continue a character
is_char_boundary(text, index) ==
    \/ index = 0
    \/ index = Len(text)
    \/ index < Len(text) /\ (text[index + 1] < 128 \/ text[index + 1] >= 192)

IsDigit(ch) == ch >= 48 /\ ch <= 57

AllDigits(ds) == ds # <<>> /\ \A i \in 1..Len(ds) : IsDigit(ds[i])

ParseOk(n) == [ok |-> TRUE, n |-> n]
ParseFail == [ok |-> FALSE, n |-> 0]

\* the element of a one-element set; The({e : x \in {v}}) is e with x bound to
\* the value v, computed once (a Rust `let x = v;` whose x is used many times)
The(S) == CHOOSE x \in S : TRUE

\* isize: a 64-bit two's complement integer, held as its four 16-bit limbs,
\* least significant first
IsizeNat(n) == << n % 65536, n \div 65536, 0, 0 >>
IsNegative(x) == x[4] >= 32768
\* the value of an isize of small magnitude
ToInt(x) ==
    IF IsNegative(x) THEN x[1] + 65536 * (x[2] - 65536)
    ELSE x[1] + 65536 * x[2]

\* x * m + c on 64 bits: the limbs, and what is carried out of them
MulAdd(x, m, c) ==
    LET p1 == x[1] * m + c
        p2 == x[2] * m + (p1 \div 65536)
        p3 == x[3] * m + (p2 \div 65536)
        p4 == x[4] * m + (p3 \div 65536)
    IN [limbs |-> << p1 % 65536, p2 % 65536, p3 % 65536, p4 % 65536 >>,
        carry |-> p4 \div 65536]

\* x + y on 64 bits, the carry out of bit 63 dropped (isize::wrapping_add)
WrappingAdd(x, y) ==
    LET s1 == x[1] + y[1]
        s2 == x[2] + y[2] + (s1 \div 65536)
        s3 == x[3] + y[3] + (s2 \div 65536)
        s4 == x[4] + y[4] + (s3 \div 65536)
    IN << s1 % 65536, s2 % 65536, s3 % 65536, s4 % 65536 >>

\* the sum of two isize does not fit an isize (isize::overflowing_add().1)
AddOverflows(x, y) ==
    /\ IsNegative(x) = IsNegative(y)
    /\ IsNegative(WrappingAdd(x, y)) # IsNegative(x)

\* -x on 64 bits
WrappingNeg(x) ==
    WrappingAdd(<< 65535 - x[1], 65535 - x[2], 65535 - x[3], 65535 - x[4] >>, IsizeNat(1))

\* the isize of a small integer
Isize(n) == IF n >= 0 THEN IsizeNat(n) ELSE WrappingNeg(IsizeNat(0 - n))

\* the digits of a decimal literal accumulated into 64 bits (result * 10 + digit),
\* failing when the value leaves them
RECURSIVE DigitsLimbs(_)
DigitsLimbs(ds) ==
    IF ds = <<>> THEN ParseOk(Isize(0))
    ELSE The({ IF ~prev.ok THEN prev
               ELSE The({ IF r.carry > 0 THEN [ok |-> FALSE, n |-> Isize(0)]
                          ELSE ParseOk(r.limbs)
                          : r \in {MulAdd(prev.n, 10, ds[Len(ds)] - 48)} })
               : prev \in {DigitsLimbs(SubSeq(ds, 1, Len(ds) - 1))} })

\* str::parse::<isize>(): an optional sign, then one or more decimal digits, the
\* value within isize::MIN ..= isize::MAX
ParseIsize(text) ==
    The({ IF ~AllDigits(digits) THEN [ok |-> FALSE, n |-> Isize(0)]
          ELSE The({ IF ~mag.ok THEN mag
                     ELSE IF text[1] = 45
                     THEN (IF mag.n[4] < 32768 \/ mag.n = << 0, 0, 0, 32768 >>
                           THEN ParseOk(WrappingNeg(mag.n))
                           ELSE [ok |-> FALSE, n |-> Isize(0)])
                     ELSE (IF mag.n[4] < 32768 THEN mag
                           ELSE [ok |-> FALSE, n |-> Isize(0)])
                     : mag \in {DigitsLimbs(digits)} })
          : digits \in {IF text # <<>> /\ text[1] \in {43, 45} THEN Tail(text) ELSE text} })

----------------------------------------------------------------------------
(* Natural numbers of any size, as their base-65536 digits, least           *)
(* significant first and without high zeros (zero is <<>>).                 *)

Pow2(r) ==
    CASE r = 0 -> 1 [] r = 1 -> 2 [] r = 2 -> 4 [] r = 3 -> 8 [] r = 4 -> 16
      [] r = 5 -> 32 [] r = 6 -> 64 [] r = 7 -> 128 [] r = 8 -> 256 [] r = 9 -> 512
      [] r = 10 -> 1024 [] r = 11 -> 2048 [] r = 12 -> 4096 [] r = 13 -> 8192
      [] r = 14 -> 16384 [] r = 15 -> 32768 [] r = 16 -> 65536

\* x without its high zeros
BigTrim(x) ==
    SubSeq(x, 1, CHOOSE n \in 0..Len(x) :
                    /\ n = 0 \/ x[n] # 0
                    /\ \A i \in (n + 1)..Len(x) : x[i] = 0)

Limb(x, i) == IF i <= Len(x) THEN x[i] ELSE 0
LongerLen(x, y) == IF Len(x) >= Len(y) THEN Len(x) ELSE Len(y)

\* the carry into digit i of x + y: a digit below made one and every digit between
\* hands it on
BigCarry(x, y, i) ==
    IF \E j \in 1..(i - 1) :
          /\ Limb(x, j) + Limb(y, j) >= 65536
          /\ \A k \in (j + 1)..(i - 1) : Limb(x, k) + Limb(y, k) = 65535
    THEN 1 ELSE 0
BigAdd(x, y) ==
    BigTrim([i \in 1..(LongerLen(x, y) + 1) |->
                (Limb(x, i) + Limb(y, i) + BigCarry(x, y, i)) % 65536])

\* the borrow from digit i of x - y
BigBorrow(x, y, i) ==
    IF \E j \in 1..(i - 1) :
          /\ Limb(x, j) < Limb(y, j)
          /\ \A k \in (j + 1)..(i - 1) : Limb(x, k) = Limb(y, k)
    THEN 1 ELSE 0
\* x - y for x >= y
BigSub(x, y) ==
    BigTrim([i \in 1..Len(x) |->
                (x[i] - Limb(y, i) - BigBorrow(x, y, i) + 65536) % 65536])

\* -1, 0, 1 as x is below, equal to, above y
BigCmp(x, y) ==
    IF Len(x) < Len(y) THEN 0 - 1
    ELSE IF Len(x) > Len(y) THEN 1
    ELSE IF x = y THEN 0
    ELSE The({ IF x[i] < y[i] THEN 0 - 1 ELSE 1
               : i \in {CHOOSE i \in 1..Len(x) :
                           x[i] # y[i] /\ \A j \in (i + 1)..Len(x) : x[j] = y[j]} })

\* x * m + c for m <= 32768 and c < 65536: the low halves of the digit products, and
\* the high halves one digit up
BigMulSmall(x, m, c) ==
    BigAdd(BigAdd(BigTrim([i \in 1..Len(x) |-> (x[i] * m) % 65536]),
                  BigTrim(<<0>> \o [i \in 1..Len(x) |-> (x[i] * m) \div 65536])),
           IF c = 0 THEN <<>> ELSE <<c>>)

\* x * 2^k
BigShl(x, k) ==
    IF x = <<>> THEN <<>>
    ELSE [i \in 1..(k \div 16) |-> 0] \o BigMulSmall(x, Pow2(k % 16), 0)

\* floor(x / 2^k)
BigShr(x, k) ==
    IF k \div 16 >= Len(x) THEN <<>>
    ELSE BigTrim([i \in 1..(Len(x) - (k \div 16)) |->
                    (Limb(x, i + (k \div 16)) \div Pow2(k % 16))
                    + (Limb(x, i + (k \div 16) + 1) % Pow2(k % 16)) * Pow2(16 - (k % 16))])

\* x mod 2^k is not zero
BigLowBits(x, k) ==
    \E i \in 1..Len(x) :
        /\ x[i] # 0
        /\ \/ i <= k \div 16
           \/ i = (k \div 16) + 1 /\ x[i] % Pow2(k % 16) # 0

\* bit k of x (bit 0 the lowest)
BigBit(x, k) == (Limb(x, (k \div 16) + 1) \div Pow2(k % 16)) % 2

RECURSIVE BitLen(_)
BitLen(n) == IF n = 0 THEN 0 ELSE 1 + BitLen(n \div 2)
BigBitLen(x) == IF x = <<>> THEN 0 ELSE 16 * (Len(x) - 1) + BitLen(x[Len(x)])

\* x * m for m < 65536, by the two bytes of m
BigMulLimb(x, m) ==
    BigAdd(BigMulSmall(BigMulSmall(x, m \div 256, 0), 256, 0), BigMulSmall(x, m % 256, 0))

\* x times the digits lo..hi of y, each at its place: the sum of the two halves
RECURSIVE BigMulRange(_, _, _, _)
BigMulRange(x, y, lo, hi) ==
    IF lo = hi
    THEN The({ IF p = <<>> THEN <<>> ELSE [i \in 1..(lo - 1) |-> 0] \o p
               : p \in {BigMulLimb(x, y[lo])} })
    ELSE BigAdd(BigMulRange(x, y, lo, (lo + hi) \div 2),
                BigMulRange(x, y, ((lo + hi) \div 2) + 1, hi))
BigMul(x, y) == IF x = <<>> \/ y = <<>> THEN <<>> ELSE BigMulRange(x, y, 1, Len(y))

\* 10^k, of a large k the product of two halves
RECURSIVE BigPow10(_)
BigPow10(k) ==
    CASE k = 0 -> <<1>> [] k = 1 -> <<10>> [] k = 2 -> <<100>> [] k = 3 -> <<1000>>
      [] k = 4 -> <<10000>>
      [] OTHER -> BigMul(BigPow10(k \div 2), BigPow10(k - (k \div 2)))

\* the value of a string of decimal digits that is short enough for an integer
RECURSIVE DigitsValue(_)
DigitsValue(ds) ==
    IF ds = <<>> THEN 0
    ELSE 10 * DigitsValue(SubSeq(ds, 1, Len(ds) - 1)) + (ds[Len(ds)] - 48)

\* the number a string of decimal digits writes, four digits at a time
RECURSIVE BigOfDigits(_)
BigOfDigits(ds) ==
    IF Len(ds) <= 4 THEN BigTrim(<< DigitsValue(ds) >>)
    ELSE BigMulSmall(BigOfDigits(SubSeq(ds, 1, Len(ds) - 4)), 10000,
                     DigitsValue(SubSeq(ds, Len(ds) - 3, Len(ds))))

\* the number a string of bits writes, the highest first
BigOfBinary(bs) ==
    BigTrim([i \in 1..((Len(bs) + 15) \div 16) |->
                LET Bit(k) == IF k < Len(bs) THEN bs[Len(bs) - k] ELSE 0
                    b == 16 * (i - 1)
                IN Bit(b) + 2 * Bit(b + 1) + 4 * Bit(b + 2) + 8 * Bit(b + 3)
                   + 16 * Bit(b + 4) + 32 * Bit(b + 5) + 64 * Bit(b + 6) + 128 * Bit(b + 7)
                   + 256 * Bit(b + 8) + 512 * Bit(b + 9) + 1024 * Bit(b + 10)
                   + 2048 * Bit(b + 11) + 4096 * Bit(b + 12) + 8192 * Bit(b + 13)
                   + 16384 * Bit(b + 14) + 32768 * Bit(b + 15)])

\* long division of r by d for a quotient below 2^n, the high half of its bits before
\* the low half: the n bits of the quotient, the highest first, and the rest
RECURSIVE BigDivRange(_, _, _)
BigDivRange(r, d, n) ==
    IF n = 1
    THEN IF BigCmp(r, d) >= 0
         THEN [bits |-> <<1>>, r |-> BigSub(r, d)]
         ELSE [bits |-> <<0>>, r |-> r]
    ELSE The({ The({ [bits |-> hi.bits \o lo.bits, r |-> lo.r]
                     : lo \in {BigDivRange(hi.r, d, n \div 2)} })
               : hi \in {BigDivRange(r, BigShl(d, n \div 2), n - (n \div 2))} })

\* long division of r by d for a quotient below 2^bits: the bits of the quotient, the
\* highest first, and after them whether a rest is left
BigDivBits(r, d, bits) ==
    The({ q.bits \o << q.r # <<>> >> : q \in {BigDivRange(r, d, bits)} })

----------------------------------------------------------------------------
(* f64: an IEEE 754 binary64, held as the four 16-bit limbs of its bits,    *)
(* least significant first (sign, 11 bits of exponent, 52 of fraction).     *)

F64Negative(x) == x[4] >= 32768
F64Exponent(x) == (x[4] % 32768) \div 16
F64Fraction(x) == BigTrim(<< x[1], x[2], x[3], x[4] % 16 >>)
F64IsNan(x) == F64Exponent(x) = 2047 /\ F64Fraction(x) # <<>>
F64IsInf(x) == F64Exponent(x) = 2047 /\ F64Fraction(x) = <<>>
F64IsZero(x) == F64Exponent(x) = 0 /\ F64Fraction(x) = <<>>

F64Zero(neg) == << 0, 0, 0, IF neg THEN 32768 ELSE 0 >>
F64Inf(neg) == << 0, 0, 0, 32752 + (IF neg THEN 32768 ELSE 0) >>
F64Nan(neg) == << 0, 0, 0, 32760 + (IF neg THEN 32768 ELSE 0) >>

Pad4(x) == << Limb(x, 1), Limb(x, 2), Limb(x, 3), Limb(x, 4) >>

\* a finite x is mant * 2^exp (f64::integer_decode, the fraction of a subnormal
\* not shifted)
F64Mant(x) ==
    IF F64Exponent(x) = 0 THEN F64Fraction(x)
    ELSE BigAdd(F64Fraction(x), << 0, 0, 0, 16 >>)
F64Exp(x) == IF F64Exponent(x) = 0 THEN 0 - 1074 ELSE F64Exponent(x) - 1075

\* the f64 nearest to q * 2^(-s), q of `len` bits, ties to even; sticky says that
\* something below the last bit of q was cut off
F64OfBits(neg, q, len, s, sticky) ==
    The({ IF e2 > 1023 THEN F64Inf(neg)
          ELSE The({ IF keep < 0 THEN F64Zero(neg)
                     ELSE The({ The({ IF Len(bits) = 4 /\ bits[4] >= 32752 THEN F64Inf(neg)
                                      ELSE [Pad4(bits) EXCEPT ![4] = @ + (IF neg THEN 32768 ELSE 0)]
                                      : bits \in {BigAdd(IF up THEN BigAdd(m, <<1>>) ELSE m,
                                                         IF e2 >= 0 - 1022
                                                         THEN << 0, 0, 0, 16 * (e2 + 1022) >>
                                                         ELSE <<>>)} })
                                : m \in {IF len <= keep THEN BigShl(q, keep - len)
                                         ELSE BigShr(q, len - keep)},
                                  up \in {/\ len > keep
                                          /\ BigBit(q, len - keep - 1) = 1
                                          /\ \/ sticky
                                             \/ BigLowBits(q, len - keep - 1)
                                             \/ BigBit(q, len - keep) = 1} })
                     : keep \in {IF e2 >= 0 - 1022 THEN 53 ELSE e2 + 1075} })
          : e2 \in {len - 1 - s} })

\* the f64 nearest to num / den (num > 0, den > 0)
F64OfRatio(neg, num, den) ==
    The({ The({ The({ F64OfBits(neg, q, BigBitLen(q), s, d[59])
                      : q \in {BigOfBinary(SubSeq(d, 1, 58))} })
                : d \in {BigDivBits(IF s >= 0 THEN BigShl(num, s) ELSE num,
                                    IF s >= 0 THEN den ELSE BigShl(den, 0 - s),
                                    58)} })
          : s \in {56 - (BigBitLen(num) - BigBitLen(den))} })

\* the f64 nearest to mant * 2^exp (mant > 0)
F64OfBig(neg, mant, exp) == F64OfBits(neg, mant, BigBitLen(mant), 0 - exp, FALSE)

\* `n as f64` of an isize
F64OfIsize(n) ==
    IF n = << 0, 0, 0, 0 >> THEN F64Zero(FALSE)
    ELSE F64OfBig(IsNegative(n), BigTrim(IF IsNegative(n) THEN WrappingNeg(n) ELSE n), 0)

----------------------------------------------------------------------------
(* <f64 as FromStr>::from_str *)

\* the length of the run of decimal digits of text that starts at position i
DigitRun(text, i) ==
    CHOOSE n \in 0..Len(text) :
        /\ \A j \in i..(i + n - 1) : j <= Len(text) /\ IsDigit(text[j])
        /\ i + n > Len(text) \/ ~IsDigit(text[i + n])

\* ds without its leading zeros
StripZeros(ds) ==
    SubSeq(ds, 1 + (CHOOSE n \in 0..Len(ds) :
                       /\ \A j \in 1..n : ds[j] = 48
                       /\ n = Len(ds) \/ ds[n + 1] # 48), Len(ds))

\* the value of the digits of an exponent, kept at 100000 when it is more
ExpValue(ds) == IF Len(StripZeros(ds)) > 5 THEN 100000 ELSE DigitsValue(StripZeros(ds))

Lower(ch) == IF ch >= 65 /\ ch <= 90 THEN ch + 32 ELSE ch
LowerText(text) == [i \in 1..Len(text) |-> Lower(text[i])]

F64ParseFail == [ok |-> FALSE, n |-> F64Zero(FALSE)]

\* digits * 10^exp10, digits without leading zeros: the ratio of two integers
F64OfDecimal(neg, digits, exp10) ==
    IF digits = <<>> THEN F64Zero(neg)
    ELSE IF exp10 + Len(digits) - 1 >= 309 THEN F64Inf(neg)
    ELSE IF exp10 + Len(digits) <= 0 - 324 THEN F64Zero(neg)
    ELSE The({ F64OfRatio(neg, IF exp10 >= 0 THEN BigMul(n, p) ELSE n,
                          IF exp10 >= 0 THEN <<1>> ELSE p)
               : n \in {BigOfDigits(digits)},
                 p \in {BigPow10(IF exp10 >= 0 THEN exp10 ELSE 0 - exp10)} })

\* what follows the digits: nothing, or `e` or `E` with a signed exponent that has a
\* digit
ParseExponent(rest) ==
    IF rest = <<>> THEN [ok |-> TRUE, n |-> 0]
    ELSE IF Lower(rest[1]) # 101 THEN [ok |-> FALSE, n |-> 0]
    ELSE The({ IF ~AllDigits(ds) THEN [ok |-> FALSE, n |-> 0]
               ELSE [ok |-> TRUE,
                     n |-> IF Len(rest) >= 2 /\ rest[2] = 45
                           THEN 0 - ExpValue(ds) ELSE ExpValue(ds)]
               : ds \in {IF Len(rest) >= 2 /\ rest[2] \in {43, 45}
                         THEN SubSeq(rest, 3, Len(rest)) ELSE Tail(rest)} })

\* the number part: digits, `.` digits, and the exponent; there is a digit before or
\* after the point
ParseNumber(neg, text) ==
    The({ The({ The({ IF int + frac = 0 \/ ~e.ok THEN F64ParseFail
                      ELSE [ok |-> TRUE,
                            n |-> F64OfDecimal(neg,
                                     StripZeros(SubSeq(text, 1, int)
                                                \o SubSeq(text, int + 2, int + 1 + frac)),
                                     e.n - frac)]
                      : e \in {ParseExponent(rest)} })
                : frac \in {IF int < Len(text) /\ text[int + 1] = 46
                            THEN DigitRun(text, int + 2) ELSE 0},
                  rest \in {IF int < Len(text) /\ text[int + 1] = 46
                            THEN SubSeq(text, int + 2 + DigitRun(text, int + 2), Len(text))
                            ELSE SubSeq(text, int + 1, Len(text))} })
          : int \in {DigitRun(text, 1)} })

\* str::parse::<f64>(): an optional sign, then a number or, in any case of letters,
\* inf, infinity or nan
ParseF64(text) ==
    The({ The({ IF body = <<>> THEN F64ParseFail
                ELSE IF LowerText(body) \in {<<105, 110, 102>>,
                                              <<105, 110, 102, 105, 110, 105, 116, 121>>}
                THEN [ok |-> TRUE, n |-> F64Inf(neg)]
                ELSE IF LowerText(body) = <<110, 97, 110>> THEN [ok |-> TRUE, n |-> F64Nan(neg)]
                ELSE ParseNumber(neg, body)
                : body \in {IF text # <<>> /\ text[1] \in {43, 45} THEN Tail(text) ELSE text} })
          : neg \in {text # <<>> /\ text[1] = 45} })

----------------------------------------------------------------------------
(* f64 arithmetic and comparison *)

\* a == b of two f64
F64Eq(a, b) ==
    /\ ~F64IsNan(a) /\ ~F64IsNan(b)
    /\ a = b \/ (F64IsZero(a) /\ F64IsZero(b))

\* the bits of the magnitude, which order the magnitudes of f64 that are no NaN
F64Magnitude(x) == BigTrim([x EXCEPT ![4] = @ % 32768])

\* a < b of two f64
F64Less(a, b) ==
    /\ ~F64IsNan(a) /\ ~F64IsNan(b)
    /\ ~(F64IsZero(a) /\ F64IsZero(b))
    /\ IF F64Negative(a) # F64Negative(b) THEN F64Negative(a)
       ELSE IF F64Negative(a) THEN BigCmp(F64Magnitude(a), F64Magnitude(b)) > 0
       ELSE BigCmp(F64Magnitude(a), F64Magnitude(b)) < 0

\* a + b of two finite f64: the exact sum of the two at the lower exponent, rounded
F64AddFinite(a, b) ==
    The({ The({ The({ IF r.m = <<>> THEN F64Zero(r.neg) ELSE F64OfBig(r.neg, r.m, e)
                      : r \in {IF F64Negative(a) = F64Negative(b)
                               THEN [neg |-> F64Negative(a), m |-> BigAdd(ma, mb)]
                               ELSE IF BigCmp(ma, mb) = 0 THEN [neg |-> FALSE, m |-> <<>>]
                               ELSE IF BigCmp(ma, mb) > 0
                               THEN [neg |-> F64Negative(a), m |-> BigSub(ma, mb)]
                               ELSE [neg |-> F64Negative(b), m |-> BigSub(mb, ma)]} })
                : ma \in {BigShl(F64Mant(a), F64Exp(a) - e)},
                  mb \in {BigShl(F64Mant(b), F64Exp(b) - e)} })
          : e \in {IF F64Exp(a) <= F64Exp(b) THEN F64Exp(a) ELSE F64Exp(b)} })

\* a + b of two f64; the NaN of a sum is any NaN
F64Add(a, b) ==
    IF F64IsNan(a) THEN a
    ELSE IF F64IsNan(b) THEN b
    ELSE IF F64IsInf(a)
    THEN (IF F64IsInf(b) /\ F64Negative(a) # F64Negative(b) THEN F64Nan(TRUE) ELSE a)
    ELSE IF F64IsInf(b) THEN b
    ELSE F64AddFinite(a, b)

----------------------------------------------------------------------------
(* <f64 as Display>::fmt: the shortest digits that read back as the same    *)
(* f64 (flt2dec::strategy::dragon::format_shortest), written without an     *)
(* exponent.                                                                *)

\* decode(): the value as mant * 2^exp with its half gaps minus and plus (in units of
\* 2^exp) to the neighbours, and whether the bounds belong to the value
F64Decoded(x) ==
    The({ IF F64Exponent(x) = 0
          THEN [mant |-> mant, minus |-> <<1>>, plus |-> <<1>>,
                exp |-> 0 - 1075, inclusive |-> TRUE]
          ELSE IF F64Fraction(x) = <<>>
          THEN [mant |-> mant, minus |-> <<1>>, plus |-> <<2>>,
                exp |-> F64Exp(x) - 2, inclusive |-> TRUE]
          ELSE [mant |-> mant, minus |-> <<1>>, plus |-> <<1>>,
                exp |-> F64Exp(x) - 1, inclusive |-> x[1] % 2 = 0]
          : mant \in {BigShl(F64Mant(x),
                             IF F64Exponent(x) # 0 /\ F64Fraction(x) = <<>> THEN 2 ELSE 1)} })

\* a.cmp(b) < rounding: a <= b when the bounds are included, a < b when they are not
Within(a, b, inclusive) == IF inclusive THEN BigCmp(a, b) <= 0 ELSE BigCmp(a, b) < 0

\* estimate_scaling_factor: k_0 with 10^(k_0 - 1) < mant * 2^exp <= 10^(k_0 + 1)
EstimateScaling(mant, exp) ==
    ((BigBitLen(BigSub(mant, <<1>>)) + exp) * 30103) \div 100000

\* mant / scale < 10: the digit floor(mant / scale) and the rest
RECURSIVE DivRem(_, _, _)
DivRem(mant, scale, d) ==
    IF BigCmp(mant, scale) < 0 THEN [d |-> d, r |-> mant]
    ELSE DivRem(BigSub(mant, scale), scale, d + 1)

\* round_up of a digit string: the digits, and whether they grew by one
RoundUp(ds) ==
    IF \A i \in 1..Len(ds) : ds[i] = 57
    THEN [ds |-> <<49>> \o [i \in 1..Len(ds) |-> 48], grew |-> TRUE]
    ELSE LET last == CHOOSE i \in 1..Len(ds) : ds[i] # 57 /\ \A j \in (i + 1)..Len(ds) : ds[j] = 57
         IN [ds |-> [i \in 1..Len(ds) |-> IF i < last THEN ds[i]
                                          ELSE IF i = last THEN ds[i] + 1 ELSE 48],
             grew |-> FALSE]

\* the digit loop of format_shortest
RECURSIVE ShortestLoop(_, _, _, _, _, _, _)
ShortestLoop(mant, minus, plus, scale, inclusive, ds, k) ==
    The({ The({ IF down \/ up
                THEN (IF up /\ (~down \/ BigCmp(BigMulSmall(dr.r, 2, 0), scale) >= 0)
                      THEN [ds |-> RoundUp(Append(ds, 48 + dr.d)).ds,
                            k |-> IF RoundUp(Append(ds, 48 + dr.d)).grew THEN k + 1 ELSE k]
                      ELSE [ds |-> Append(ds, 48 + dr.d), k |-> k])
                ELSE ShortestLoop(BigMulSmall(dr.r, 10, 0), BigMulSmall(minus, 10, 0),
                                  BigMulSmall(plus, 10, 0), scale, inclusive,
                                  Append(ds, 48 + dr.d), k)
                : down \in {Within(dr.r, minus, inclusive)},
                  up \in {Within(scale, BigAdd(dr.r, plus), inclusive)} })
          : dr \in {DivRem(mant, scale, 0)} })

\* format_shortest once k is estimated: mant, minus, plus and scale (in this order)
\* are brought to a common scale by powers of two and of ten, then the digit loop
FormatScaled(d, k) ==
    The({ The({ The({ The({ ShortestLoop(t[1], t[2], t[3], s[4], d.inclusive, <<>>,
                                         IF fits THEN k + 1 ELSE k)
                            : t \in {SubSeq([i \in 1..3 |->
                                                IF fits THEN s[i]
                                                ELSE BigMulSmall(s[i], 10, 0)], 1, 3)} })
                      : fits \in {Within(s[4], BigAdd(s[1], s[3]), d.inclusive)} })
                : s \in {SubSeq([i \in 1..4 |->
                                    IF (i = 4) = (k >= 0) THEN BigMul(b[i], p) ELSE b[i]],
                                1, 4)} })
          : p \in {BigPow10(IF k >= 0 THEN k ELSE 0 - k)},
            b \in {SubSeq([i \in 1..4 |->
                              IF (i = 4) = (d.exp < 0)
                              THEN BigShl(<< d.mant, d.minus, d.plus, <<1>> >>[i],
                                          IF d.exp < 0 THEN 0 - d.exp ELSE d.exp)
                              ELSE << d.mant, d.minus, d.plus, <<1>> >>[i]],
                          1, 4)} })

\* format_shortest: the digits d1 d2 .. and k, for the value 0.d1d2.. * 10^k
FormatShortest(d) ==
    The({ FormatScaled(d, k) : k \in {EstimateScaling(BigAdd(d.mant, d.plus), d.exp)} })

\* digits_to_dec_str with no minimum of fraction digits
DigitsToDecStr(ds, exp) ==
    IF exp <= 0 THEN <<48, 46>> \o [i \in 1..(0 - exp) |-> 48] \o ds
    ELSE IF exp < Len(ds) THEN SubSeq(ds, 1, exp) \o <<46>> \o SubSeq(ds, exp + 1, Len(ds))
    ELSE ds \o [i \in 1..(exp - Len(ds)) |-> 48]

\* f64::to_string
F64Text(x) ==
    IF F64IsNan(x) THEN <<78, 97, 78>>
    ELSE (IF F64Negative(x) THEN <<45>> ELSE <<>>)
         \o (IF F64IsInf(x) THEN <<105, 110, 102>>
             ELSE IF F64IsZero(x) THEN <<48>>
             ELSE The({ DigitsToDecStr(r.ds, r.k) : r \in {FormatShortest(F64Decoded(x))} }))

\* a usize (64 bits, held as its limbs like an isize) that is below 2^30, and its value
Fits(n) == n[4] = 0 /\ n[3] = 0 /\ n[2] < 16384
Small(n) == n[1] + 65536 * n[2]
\* n < len and n <= len for a usize n and the length of a sequence
Below(n, len) == Fits(n) /\ Small(n) < len
AtMost(n, len) == Fits(n) /\ Small(n) <= len

\* str::parse::<usize>() and str::parse::<u8>(): an optional plus sign, then one or more
\* decimal digits, the value within the type
ParseUsize(text) ==
    The({ IF ~AllDigits(digits) THEN [ok |-> FALSE, n |-> Isize(0)]
          ELSE DigitsLimbs(digits)
          : digits \in {IF text # <<>> /\ text[1] = 43 THEN Tail(text) ELSE text} })
ParseU8(text) ==
    The({ IF p.ok /\ AtMost(p.n, 255) THEN ParseOk(Small(p.n)) ELSE ParseFail
          : p \in {ParseUsize(text)} })

\* str::split('.') of a variable name
SplitDots(name) ==
    CASE name = "args.0" -> <<"args", "0">>
      [] name = "args.1" -> <<"args", "1">>
      [] name = "args.5" -> <<"args", "5">>
      [] name = "x.0" -> <<"x", "0">>
      [] name = "g.0" -> <<"g", "0">>
      [] name = "a.1" -> <<"a", "1">>
      [] OTHER -> <<name>>

----------------------------------------------------------------------------
(* VarType *)

Ty(k) == [k |-> k, a |-> <<>>]
TBool == Ty("Bool")
TString == Ty("String")
TInteger == Ty("Integer")
TFloat == Ty("Float")
TChar == Ty("Char")
TInStream == Ty("InStream")
TOutStream == Ty("OutStream")
TNull == Ty("Null")
TList(e) == [k |-> "List", a |-> <<e>>]
TOptional(e) == [k |-> "Optional", a |-> <<e>>]
TMap(kt, vt) == [k |-> "Map", a |-> <<kt, vt>>]

TyOk(t) == [ok |-> TRUE, t |-> t, e |-> "none"]
TyErr(e) == [ok |-> FALSE, t |-> TNull, e |-> e]

\* the keyword table of VarType::from_name
KeywordType(name) ==
    CASE name \in {Chars("bool"), Chars("b")} -> TyOk(TBool)
      [] name \in {Chars("string"), Chars("str"), Chars("s")} -> TyOk(TString)
      [] name \in {Chars("integer"), Chars("int"), Chars("i")} -> TyOk(TInteger)
      [] name \in {Chars("float"), Chars("f")} -> TyOk(TFloat)
      [] name \in {Chars("char"), Chars("c")} -> TyOk(TChar)
      [] name \in {Chars("in_stream"), Chars("in")} -> TyOk(TInStream)
      [] name \in {Chars("out_stream"), Chars("out")} -> TyOk(TOutStream)
      [] name = Chars("null") -> TyOk(TNull)
      [] OTHER -> TyErr("TypeUnknownError")

\* the loop over the characters of the body of a map type: a character goes to
\* key_type while val_stat = 0 and to val_type while val_stat = 1, then a comma
\* met at val_tree = 0 raises val_stat, `[` raises and `]` lowers val_tree
RECURSIVE SplitMapBody(_, _)
SplitMapBody(value_type, st) ==
    IF value_type = <<>> THEN st
    ELSE LET char == Head(value_type)
         IN SplitMapBody(Tail(value_type),
               [key_type |-> IF st.val_stat = 0 THEN Append(st.key_type, char)
                             ELSE st.key_type,
                val_type |-> IF st.val_stat = 1 THEN Append(st.val_type, char)
                             ELSE st.val_type,
                val_stat |-> IF char = 44 /\ st.val_tree = 0 THEN st.val_stat + 1
                             ELSE st.val_stat,
                val_tree |-> IF char = 91 THEN st.val_tree + 1
                             ELSE IF char = 93 THEN st.val_tree - 1
                             ELSE st.val_tree])

\* the offset at which the body of a map type is taken
MapBodyOffset == 9

\* name[from..name.len() - 1]: the slice exists when from <= name.len() - 1 and both
\* bounds are on the boundary of a character
HasBody(name, from) ==
    /\ from <= Len(name) - 1
    /\ is_char_boundary(name, from)
    /\ is_char_boundary(name, Len(name) - 1)

\* VarType::from_name; a slice that does not exist is a panic
RECURSIVE from_name(_)
from_name(name) ==
    IF StartsWith(name, Chars("map["))
    THEN IF ~HasBody(name, MapBodyOffset) THEN TyErr("panic")
         ELSE LET parts == SplitMapBody(SubSeq(name, MapBodyOffset + 1, Len(name) - 1),
                              [key_type |-> <<>>, val_type |-> <<>>,
                               val_stat |-> 0, val_tree |-> 0])
                  key_type == from_name(parts.key_type)
              IN IF ~key_type.ok THEN key_type
                 ELSE LET val_type == from_name(parts.val_type)
                      IN IF ~val_type.ok THEN val_type
                         ELSE TyOk(TMap(key_type.t, val_type.t))
    ELSE IF StartsWith(name, Chars("list["))
    THEN IF ~HasBody(name, 5) THEN TyErr("panic")
         ELSE LET inner == from_name(SubSeq(name, 6, Len(name) - 1))
              IN IF inner.ok THEN TyOk(TList(inner.t)) ELSE inner
    ELSE IF StartsWith(name, Chars("optional["))
    THEN IF ~HasBody(name, 9) THEN TyErr("panic")
         ELSE LET inner == from_name(SubSeq(name, 10, Len(name) - 1))
              IN IF inner.ok THEN TyOk(TOptional(inner.t)) ELSE inner
    ELSE KeywordType(name)

----------------------------------------------------------------------------
(* Variable: a type descriptor, a presence flag, and the payload.           *)
(* sc holds a scalar payload (the limbs of an integer, the bits of a float, *)
(* a bool as 0/1, a char, the bytes of a string, the handle of a stream);   *)
(* items holds the                                                          *)
(* Variables of a list, the entries of a map (each an entry with items      *)
(* <<key, value>>) or the content of an optional (<<>> for None).           *)

Var(t, init, sc, items) == [t |-> t, init |-> init, sc |-> sc, items |-> items]

from_null == Var(TNull, TRUE, <<>>, <<>>)
from_bool(b) == Var(TBool, TRUE, <<IF b THEN 1 ELSE 0>>, <<>>)
from_str(text) == Var(TString, TRUE, text, <<>>)
from_int(n) == Var(TInteger, TRUE, n, <<>>)
from_float(n) == Var(TFloat, TRUE, n, <<>>)
from_char(ch) == Var(TChar, TRUE, <<ch>>, <<>>)
from_list(elems, value_type) == Var(TList(value_type), TRUE, <<>>, elems)
from_out_stream(handle) == Var(TOutStream, TRUE, <<handle>>, <<>>)
from_in_stream(handle) == Var(TInStream, TRUE, <<handle>>, <<>>)
MapEntry(k, v) == Var(Ty("Entry"), TRUE, <<>>, <<k, v>>)

get_type(v) == v.t
is_initialized(v) == v.init

VOk(v) == [ok |-> TRUE, v |-> v, e |-> "none"]
VErr(e) == [ok |-> FALSE, v |-> from_null, e |-> e]

\* the typed accessors: [ok, n] for scalars, [ok, s] for sequences
as_int(v) == IF v.t.k = "Integer" /\ v.init THEN [ok |-> TRUE, n |-> v.sc]
             ELSE [ok |-> FALSE, n |-> Isize(0)]
as_bool(v) == IF v.t.k = "Bool" /\ v.init THEN [ok |-> TRUE, n |-> v.sc[1]]
              ELSE [ok |-> FALSE, n |-> 0]
as_char(v) == IF v.t.k = "Char" /\ v.init THEN [ok |-> TRUE, n |-> v.sc[1]]
              ELSE [ok |-> FALSE, n |-> 0]
as_str(v) == IF v.t.k = "String" /\ v.init THEN [ok |-> TRUE, s |-> v.sc]
             ELSE [ok |-> FALSE, s |-> <<>>]
as_list(v) == IF v.t.k = "List" /\ v.init THEN [ok |-> TRUE, s |-> v.items]
              ELSE [ok |-> FALSE, s |-> <<>>]
as_float(v) == IF v.t.k = "Float" /\ v.init THEN [ok |-> TRUE, n |-> v.sc]
              ELSE [ok |-> FALSE, n |-> F64Zero(FALSE)]
as_map(v) == IF v.t.k = "Map" /\ v.init THEN [ok |-> TRUE, s |-> v.items]
            ELSE [ok |-> FALSE, s |-> <<>>]
\* as_option: the content of an initialized optional (<<>> for None)
as_option(v) == IF v.t.k = "Optional" /\ v.init THEN [ok |-> TRUE, s |-> v.items]
                ELSE [ok |-> FALSE, s |-> <<>>]
\* get_option_type: the T of a value whose descriptor is optional[T]
get_option_type(v) == IF v.t.k = "Optional" THEN TyOk(v.t.a[1]) ELSE TyErr("TypeMismatchError")
\* an optional that loses its content
FromOptionalEmpty(content, var_type) == Var(TOptional(var_type), TRUE, <<>>, <<>>)
\* from_optional(Some(content), var_type): content is <<>> (None) or <<x>>
from_optional(content, var_type) == Var(TOptional(var_type), TRUE, <<>>, content)
as_in_stream(v) == IF v.t.k = "InStream" /\ v.init THEN [ok |-> TRUE, n |-> v.sc[1]]
                   ELSE [ok |-> FALSE, n |-> 0]
as_out_stream(v) == IF v.t.k = "OutStream" /\ v.init THEN [ok |-> TRUE, n |-> v.sc[1]]
                    ELSE [ok |-> FALSE, n |-> 0]

\* isize::to_string: the decimal digits of a 64-bit value taken as unsigned, by
\* repeated division by ten, and the sign in front
DivTen(x) ==
    LET t4 == x[4]
        t3 == (t4 % 10) * 65536 + x[3]
        t2 == (t3 % 10) * 65536 + x[2]
        t1 == (t2 % 10) * 65536 + x[1]
    IN [q |-> << t1 \div 10, t2 \div 10, t3 \div 10, t4 \div 10 >>, r |-> t1 % 10]
RECURSIVE Digits(_)
Digits(x) ==
    IF x = << 0, 0, 0, 0 >> THEN <<>>
    ELSE Append(Digits(DivTen(x).q), 48 + DivTen(x).r)
IntegerText(n) ==
    IF n = << 0, 0, 0, 0 >> THEN <<48>>
    ELSE IF IsNegative(n) THEN <<45>> \o Digits(WrappingNeg(n))
    ELSE Digits(n)

TextOk(text) == [ok |-> TRUE, s |-> text, e |-> "none"]
TextErr(e) == [ok |-> FALSE, s |-> <<>>, e |-> e]

\* Variable::to_string; the arm for List(VarType::Char, _) is met by no list, whose
\* descriptor is always List(..)
RECURSIVE to_string(_)
RECURSIVE JoinItems(_, _)
\* the texts of items i.. joined with ", "
JoinItems(items, i) ==
    IF i > Len(items) THEN TextOk(<<>>)
    ELSE LET head == to_string(items[i])
             rest == JoinItems(items, i + 1)
         IN IF ~head.ok THEN head
            ELSE IF ~rest.ok THEN rest
            ELSE TextOk(head.s \o (IF i = Len(items) THEN <<>> ELSE <<44, 32>>) \o rest.s)
RECURSIVE JoinEntries(_, _)
\* the entries i.. as `key: value` joined with ", "
JoinEntries(items, i) ==
    IF i > Len(items) THEN TextOk(<<>>)
    ELSE LET key == to_string(items[i].items[1])
             value == to_string(items[i].items[2])
             rest == JoinEntries(items, i + 1)
         IN IF ~key.ok THEN key
            ELSE IF ~value.ok THEN value
            ELSE IF ~rest.ok THEN rest
            ELSE TextOk(key.s \o <<58, 32>> \o value.s
                          \o (IF i = Len(items) THEN <<>> ELSE <<44, 32>>) \o rest.s)
to_string(v) ==
    IF v.t.k = "Null" THEN TextOk(<<110, 117, 108, 108>>)
    ELSE IF ~v.init THEN TextErr("VarNotInitedError")
    ELSE CASE v.t.k = "Bool" ->
                TextOk(IF v.sc[1] = 1 THEN <<116, 114, 117, 101>>
                       ELSE <<102, 97, 108, 115, 101>>)
           [] v.t.k = "String" -> TextOk(v.sc)
           [] v.t.k = "Integer" -> TextOk(IntegerText(v.sc))
           [] v.t.k = "Float" -> TextOk(F64Text(v.sc))
           [] v.t.k = "Char" ->
                IF v.sc[1] < 128 THEN TextOk(v.sc) ELSE TextErr("StringUTF8Error")
           [] v.t.k = "List" ->
                LET inner == JoinItems(v.items, 1)
                IN IF inner.ok THEN TextOk(<<91>> \o inner.s \o <<93>>) ELSE inner
           [] v.t.k = "Map" ->
                LET inner == JoinEntries(v.items, 1)
                IN IF inner.ok THEN TextOk(<<123>> \o inner.s \o <<125>>) ELSE inner
           [] v.t.k = "Optional" ->
                IF v.items = <<>> THEN TextOk(<<110, 111, 110, 101>>)
                ELSE LET inner == to_string(v.items[1])
                     IN IF inner.ok THEN TextOk(<<40>> \o inner.s \o <<41>>) ELSE inner
           [] v.t.k = "InStream" -> TextOk(<<73, 78, 95, 83, 84, 82, 69, 65, 77>>)
           [] v.t.k = "OutStream" -> TextOk(<<79, 85, 84, 95, 83, 84, 82, 69, 65, 77>>)
           [] OTHER -> TextErr("VarNotInitedError")

\* Variable::empty_var: scalars and streams absent, containers present and empty
empty_var(t) ==
    CASE t.k \in {"Bool", "String", "Integer", "Float", "Char"} -> Var(t, FALSE, <<>>, <<>>)
      [] t.k \in {"Optional", "List", "Map"} -> Var(t, TRUE, <<>>, <<>>)
      [] t.k \in {"InStream", "OutStream"} -> Var(t, FALSE, <<>>, <<>>)
      [] OTHER -> from_null

\* Variable::parse_var
RECURSIVE parse_var(_, _)
parse_var(t, text) ==
    CASE t.k = "Bool" ->
            IF text \in {Chars("true"), Chars("1")} THEN VOk(from_bool(TRUE))
            ELSE IF text \in {Chars("false"), Chars("0")} THEN VOk(from_bool(FALSE))
            ELSE VErr("ParseVarError")
      [] t.k = "Null" -> VOk(from_null)
      [] t.k = "String" -> VOk(from_str(text))
      [] t.k = "Integer" ->
            The({ IF p.ok THEN VOk(from_int(p.n)) ELSE VErr("ParseVarError")
                  : p \in {ParseIsize(text)} })
      [] t.k = "Float" ->
            The({ IF p.ok THEN VOk(from_float(p.n)) ELSE VErr("ParseVarError")
                  : p \in {ParseF64(text)} })
      [] t.k = "Char" ->
            The({ IF p.ok THEN VOk(from_char(p.n)) ELSE VErr("ParseVarError")
                  : p \in {ParseU8(text)} })
      [] t.k = "Optional" ->
            IF text # <<>> /\ text[1] = 91 /\ text[Len(text)] = 93
            THEN LET inner == parse_var(t.a[1], SubSeq(text, 2, Len(text) - 1))
                 IN IF inner.ok THEN VOk(Var(t, TRUE, <<>>, <<inner.v>>)) ELSE inner
            ELSE IF text = <<110, 111, 110, 101>> THEN VOk(Var(t, TRUE, <<>>, <<>>))
            ELSE VErr("ParseVarError")
      [] OTHER -> VErr("ParseVarError")

----------------------------------------------------------------------------
(* Tables (HashMap<String, Variable>) *)

Has(tbl, name) == name \in DOMAIN tbl
Put(tbl, name, v) == [n \in DOMAIN tbl \cup {name} |-> IF n = name THEN v ELSE tbl[n]]
Remove(tbl, name) == [n \in DOMAIN tbl \ {name} |-> tbl[n]]
EmptyTable == [n \in {} |-> from_null]

\* a position inside a Variable: the chain of items indexes leading to it
RECURSIVE At(_, _)
At(v, path) == IF path = <<>> THEN v ELSE At(v.items[path[1]], Tail(path))

RECURSIVE ReplaceAt(_, _, _)
ReplaceAt(v, path, nv) ==
    IF path = <<>> THEN nv
    ELSE [v EXCEPT !.items = [v.items EXCEPT ![path[1]] = ReplaceAt(v.items[path[1]], Tail(path), nv)]]

RemoveIndex(s, i) == SubSeq(s, 1, i - 1) \o SubSeq(s, i + 1, Len(s))

\* Arc::ptr_eq of two stream handles
StreamEqByContent(a, b) ==
    IF a.sc[1] \in DOMAIN streams /\ b.sc[1] \in DOMAIN streams
    THEN streams[a.sc[1]] = streams[b.sc[1]]
    ELSE a.sc = b.sc
StreamEq(a, b) == a.sc = b.sc

\* impl PartialEq for Variable: the variants must agree; the descriptor a value carries
\* is not compared; two maps are walked side by side, each in its own iteration order
RECURSIVE VarEq(_, _)
VarEq(a, b) ==
    IF a.t.k # b.t.k THEN FALSE
    ELSE CASE a.t.k \in {"Bool", "String", "Integer", "Char"} ->
                 a.init = b.init /\ (a.init => a.sc = b.sc)
           [] a.t.k = "Float" ->
                 a.init = b.init /\ (a.init => F64Eq(a.sc, b.sc))
           [] a.t.k = "Null" -> a.t = b.t
           [] a.t.k \in {"List", "Optional"} ->
                 /\ a.init = b.init
                 /\ a.init => /\ Len(a.items) = Len(b.items)
                              /\ \A i \in 1..Len(a.items) : VarEq(a.items[i], b.items[i])
           [] a.t.k = "Map" ->
                 IF a.init /\ b.init
                 THEN /\ Len(a.items) = Len(b.items)
                      /\ \A i \in 1..Len(a.items) :
                            ~(\/ ~VarEq(a.items[i].items[1], b.items[i].items[1])
                              \/ ~VarEq(a.items[i].items[2], b.items[i].items[2]))
                 ELSE a.init = b.init
           [] a.t.k \in {"InStream", "OutStream"} ->
                 IF a.init /\ b.init THEN StreamEq(a, b) ELSE a.init = b.init
           [] OTHER -> FALSE

\* impl Hash for Variable hashes the address of the payload (std::ptr::hash), not the
\* payload, for a Float, a Map, a stream and a Null, and so for a List or an Optional
\* that holds one of them
RECURSIVE AddressHashed(_)
AddressHashed(v) ==
    \/ v.t.k \in {"Float", "Map", "InStream", "OutStream", "Null"}
    \/ /\ v.t.k \in {"List", "Optional"}
       /\ \E i \in 1..Len(v.items) : AddressHashed(v.items[i])

\* the positions of the entries of a map payload whose key equals this key (==, which
\* leaves the descriptors out)
MapEqual(m, key) == {j \in 1..Len(m.items) : VarEq(m.items[j].items[1], key)}

\* HashMap::get with a key that is hashed by its payload: the position of the entry
\* with an equal key, or 0. (The walks of get_var, set_var and drop_var hand parse_var
\* the descriptor of the map itself, which it parses no text for: they fail before
\* they look a key up.)
MapFind(m, key) ==
    IF MapEqual(m, key) # {} THEN CHOOSE j \in MapEqual(m, key) : \A k \in MapEqual(m, key) : j <= k
    ELSE 0

\* HashMap::get: the positions it may return (0: none). A key hashed by its address
\* has the hash of no entry but by accident, and an entry whose hash differs is not
\* compared: the lookup misses, or finds an entry with an equal key.
MapGet(m, key) ==
    IF AddressHashed(key) THEN {0} \cup MapEqual(m, key) ELSE {MapFind(m, key)}

NoneVar == [some |-> FALSE, v |-> from_null]
SomeVar(v) == [some |-> TRUE, v |-> v]

\* locals.get(part).or_else(|| self.variables.get(part))
LookupGlobalFirst(part, locals, globals) ==
    IF Has(globals, part) THEN SomeVar(globals[part])
    ELSE IF Has(locals, part) THEN SomeVar(locals[part])
    ELSE NoneVar
Lookup(part, locals, globals) ==
    IF Has(locals, part) THEN SomeVar(locals[part])
    ELSE IF Has(globals, part) THEN SomeVar(globals[part])
    ELSE NoneVar

\* parse_var(map_type.clone(), part.to_string()) of the walks of get_var, set_var and
\* drop_var, called when the value at hand is an initialized Map
KeyOf(some, v, part) ==
    IF some /\ v.t.k = "Map" /\ v.init THEN parse_var(v.t, Chars(part))
    ELSE VErr("none")

\* the loop of RunningScript::get_var over the parts of the name
RECURSIVE GetWalk(_, _, _, _, _)
GetWalk(var, parts, i, locals, globals) ==
    IF i > Len(parts)
    THEN IF var.some THEN VOk(var.v) ELSE VErr("UnknownVarError")
    ELSE IF ~var.some
    THEN GetWalk(Lookup(parts[i], locals, globals), parts, i + 1, locals, globals)
    ELSE IF var.v.t.k = "List" /\ var.v.init
    THEN LET p == ParseUsize(Chars(parts[i]))
         IN IF ~p.ok THEN VErr("ParseVarError")
            ELSE IF Below(p.n, Len(var.v.items))
            THEN GetWalk(SomeVar(var.v.items[Small(p.n) + 1]), parts, i + 1, locals, globals)
            ELSE VErr("UnknownVarError")
    ELSE IF var.v.t.k = "Map" /\ var.v.init
    THEN The({ IF ~key.ok THEN VErr(key.e)
               ELSE LET j == MapFind(var.v, key.v)
                    IN GetWalk(IF j = 0 THEN NoneVar ELSE SomeVar(var.v.items[j].items[2]),
                               parts, i + 1, locals, globals)
               : key \in {KeyOf(TRUE, var.v, parts[i])} })
    ELSE VErr("TypeMismatchError")

\* RunningScript::get_var
get_var(name, locals, globals) == GetWalk(NoneVar, SplitDots(name), 1, locals, globals)

\* the outcome of a store operation: the error, or the two tables afterwards
SOk(locals, globals) == [ok |-> TRUE, e |-> "none", locals |-> locals, globals |-> globals]
SErr(e, locals, globals) == [ok |-> FALSE, e |-> e, locals |-> locals, globals |-> globals]

\* a &mut Variable: the table ("L" locals, "G" globals), the entry and the position in it
NoCursor == [some |-> FALSE, tbl |-> "L", root |-> "", path |-> <<>>]
Cursor(tbl, root, path) == [some |-> TRUE, tbl |-> tbl, root |-> root, path |-> path]
Deref(cur, locals, globals) ==
    At(IF cur.tbl = "G" THEN globals[cur.root] ELSE locals[cur.root], cur.path)
Store(cur, path, nv, locals, globals) ==
    IF cur.tbl = "G"
    THEN SOk(locals, [globals EXCEPT ![cur.root] = ReplaceAt(globals[cur.root], path, nv)])
    ELSE SOk([locals EXCEPT ![cur.root] = ReplaceAt(locals[cur.root], path, nv)], globals)

\* the index a part names in the items of a List: a usize below the length
ListIndex(v, part) ==
    The({ IF ~p.ok THEN [ok |-> FALSE, e |-> "ParseVarError", n |-> 0]
          ELSE IF Below(p.n, Len(v.items)) THEN [ok |-> TRUE, e |-> "none", n |-> Small(p.n) + 1]
          ELSE [ok |-> FALSE, e |-> "UnknownVarError", n |-> 0]
          : p \in {ParseUsize(Chars(part))} })

\* one step down a container (the non-final arm of the loops of set_var and drop_var):
\* the next cursor, or the error; index and key are what the part was parsed to
Descend(cur, v, index, key) ==
    IF v.t.k = "List"
    THEN IF ~v.init THEN [ok |-> FALSE, e |-> "UnknownVarError", cur |-> NoCursor]
         ELSE IF ~index.ok THEN [ok |-> FALSE, e |-> index.e, cur |-> NoCursor]
         ELSE [ok |-> TRUE, e |-> "none",
               cur |-> Cursor(cur.tbl, cur.root, Append(cur.path, index.n))]
    ELSE IF v.t.k = "Map"
    THEN IF ~v.init THEN [ok |-> FALSE, e |-> "UnknownVarError", cur |-> NoCursor]
         ELSE IF ~key.ok THEN [ok |-> FALSE, e |-> key.e, cur |-> NoCursor]
         ELSE LET j == MapFind(v, key.v)
              IN [ok |-> TRUE, e |-> "none",
                  cur |-> IF j = 0 THEN NoCursor
                          ELSE Cursor(cur.tbl, cur.root, cur.path \o <<j, 2>>)]
    ELSE [ok |-> FALSE, e |-> "TypeMismatchError", cur |-> NoCursor]

\* the final arm of the loop of set_var: the value goes to the item, or to the entry
\* of the key (a new one when the map has none)
SetLast(cur, v, index, key, value, locals, globals) ==
    IF v.t.k = "List"
    THEN IF ~v.init THEN SErr("UnknownVarError", locals, globals)
         ELSE IF ~index.ok THEN SErr(index.e, locals, globals)
         ELSE Store(cur, Append(cur.path, index.n), value, locals, globals)
    ELSE IF v.t.k = "Map"
    THEN IF ~v.init THEN SErr("UnknownVarError", locals, globals)
         ELSE IF ~key.ok THEN SErr(key.e, locals, globals)
         ELSE LET j == MapFind(v, key.v)
              IN Store(cur, cur.path,
                       IF j = 0
                       THEN [v EXCEPT !.items = Append(@, MapEntry(key.v, value))]
                       ELSE [v EXCEPT !.items[j] = MapEntry(key.v, value)],
                       locals, globals)
    ELSE SErr("TypeMismatchError", locals, globals)

\* the loop of RunningScript::set_var over the parts of a dotted name
RECURSIVE SetWalk(_, _, _, _, _, _, _)
SetWalk(cur, parts, i, value, global, locals, globals) ==
    IF i > Len(parts) THEN SErr("UnknownVarError", locals, globals)
    ELSE IF ~cur.some
    THEN IF i = Len(parts) THEN SErr("UnknownVarError", locals, globals)
         ELSE SetWalk(IF global
                      THEN (IF Has(globals, parts[i]) THEN Cursor("G", parts[i], <<>>)
                            ELSE NoCursor)
                      ELSE (IF Has(locals, parts[i]) THEN Cursor("L", parts[i], <<>>)
                            ELSE NoCursor),
                      parts, i + 1, value, global, locals, globals)
    ELSE The({ IF i = Len(parts)
               THEN SetLast(cur, v, ListIndex(v, parts[i]), key, value, locals, globals)
               ELSE The({ IF ~d.ok THEN SErr(d.e, locals, globals)
                          ELSE SetWalk(d.cur, parts, i + 1, value, global, locals, globals)
                          : d \in {Descend(cur, v, ListIndex(v, parts[i]), key)} })
               : v \in {Deref(cur, locals, globals)},
                 key \in {KeyOf(TRUE, Deref(cur, locals, globals), parts[i])} })

\* the routing rule of set_var: the write goes to the global table
SetGlobalNoShadow(name, global, init, locals, globals) ==
    global \/ (Has(globals, SplitDots(name)[1]) /\ ~init)
SetGlobalNever(name, global, init, locals, globals) == global
SetGlobal(name, global, init, locals, globals) ==
    global \/ (Has(globals, SplitDots(name)[1]) /\ ~Has(locals, SplitDots(name)[1]) /\ ~init)

\* RunningScript::set_var
set_var(name, value, global, init, locals, globals) ==
    The({ IF Len(SplitDots(name)) = 1
          THEN IF g THEN SOk(locals, Put(globals, name, value))
               ELSE SOk(Put(locals, name, value), globals)
          ELSE SetWalk(NoCursor, SplitDots(name), 1, value, g, locals, globals)
          : g \in {SetGlobal(name, global, init, locals, globals)} })

\* the final arm of the loop of drop_var: the item, or the entry of the key, is removed
DropLast(cur, v, index, key, locals, globals) ==
    IF v.t.k = "List"
    THEN IF ~v.init THEN SErr("UnknownVarError", locals, globals)
         ELSE IF ~index.ok THEN SErr(index.e, locals, globals)
         ELSE Store(cur, cur.path, [v EXCEPT !.items = RemoveIndex(@, index.n)],
                    locals, globals)
    ELSE IF v.t.k = "Map"
    THEN IF ~v.init THEN SErr("UnknownVarError", locals, globals)
         ELSE IF ~key.ok THEN SErr(key.e, locals, globals)
         ELSE LET j == MapFind(v, key.v)
              IN IF j = 0 THEN SErr("UnknownVarError", locals, globals)
                 ELSE Store(cur, cur.path, [v EXCEPT !.items = RemoveIndex(@, j)],
                            locals, globals)
    ELSE SErr("TypeMismatchError", locals, globals)

\* the loop of RunningScript::drop_var over the parts of a dotted name
RECURSIVE DropWalk(_, _, _, _, _)
DropWalk(cur, parts, i, locals, globals) ==
    IF i > Len(parts) THEN SErr("UnknownVarError", locals, globals)
    ELSE IF ~cur.some
    THEN IF i = Len(parts) THEN SErr("UnknownVarError", locals, globals)
         ELSE DropWalk(IF Has(locals, parts[i]) THEN Cursor("L", parts[i], <<>>)
                       ELSE IF Has(globals, parts[i]) THEN Cursor("G", parts[i], <<>>)
                       ELSE NoCursor,
                       parts, i + 1, locals, globals)
    ELSE The({ IF i = Len(parts)
               THEN DropLast(cur, v, ListIndex(v, parts[i]), key, locals, globals)
               ELSE The({ IF ~d.ok THEN SErr(d.e, locals, globals)
                          ELSE DropWalk(d.cur, parts, i + 1, locals, globals)
                          : d \in {Descend(cur, v, ListIndex(v, parts[i]), key)} })
               : v \in {Deref(cur, locals, globals)},
                 key \in {KeyOf(TRUE, Deref(cur, locals, globals), parts[i])} })

\* a drop that does not stop at the local entry
DropVarBoth(name, locals, globals) ==
    LET parts == SplitDots(name)
    IN IF Len(parts) = 1
       THEN IF Has(locals, name) \/ Has(globals, name)
            THEN SOk(Remove(locals, name), Remove(globals, name))
            ELSE SErr("UnknownVarError", locals, globals)
       ELSE DropWalk(NoCursor, parts, 1, locals, globals)

\* RunningScript::drop_var
drop_var(name, locals, globals) ==
    LET parts == SplitDots(name)
    IN IF Len(parts) = 1
       THEN IF Has(locals, name) THEN SOk(Remove(locals, name), globals)
            ELSE IF Has(globals, name) THEN SOk(locals, Remove(globals, name))
            ELSE SErr("UnknownVarError", locals, globals)
       ELSE DropWalk(NoCursor, parts, 1, locals, globals)

----------------------------------------------------------------------------
(* Command::execute for the commands that call no function.                *)
(* An arm is a sequence of statements; each script.lock() is a temporary of  *)
(* one statement, so the arm takes and gives back the script's mutex once   *)
(* per statement that names it, and other tasks may run in between. What    *)
(* the statements that read (get_var, get_function) returned so far is      *)
(* `held`, in the order of the statements. The outcome of an arm carries    *)
(* the error (if any), the local and the global table, temp_vars and the    *)
(* streams as it found them, the call of set_var or drop_var its statement  *)
(* ends with (call), whether it arose in a statement that holds the guard   *)
(* (lock), and whether the arm has another such statement to run (more).    *)

Cmd(op, args) == [op |-> op, args |-> args]
NoCmd == Cmd("none", <<>>)

\* script.lock().unwrap().set_var(name, value, global, init, locals), the same of
\* drop_var, or neither; temp: temp_vars.push(name) follows the call
NoCall == [kind |-> "none", name |-> "", v |-> from_null, init |-> FALSE, temp |-> FALSE]
SetVar(name, v, init) ==
    [kind |-> "set", name |-> name, v |-> v, init |-> init, temp |-> FALSE]
DropVar(name) ==
    [kind |-> "drop", name |-> name, v |-> from_null, init |-> FALSE, temp |-> FALSE]

\* the arm ran to its end, or failed, in statements that do not lock the script
Done(locals, globals, temp_vars, out) ==
    [ok |-> TRUE, e |-> "none", lock |-> FALSE, more |-> FALSE, call |-> NoCall,
     locals |-> locals, globals |-> globals, temp_vars |-> temp_vars, out |-> out]
Fail(e, locals, globals, temp_vars, out) ==
    [ok |-> FALSE, e |-> e, lock |-> FALSE, more |-> FALSE, call |-> NoCall,
     locals |-> locals, globals |-> globals, temp_vars |-> temp_vars, out |-> out]
\* a panic of the interpreter in such a statement
Panic(locals, globals, temp_vars, out) == Fail("panic", locals, globals, temp_vars, out)
\* a statement that locks the script and ends with the call of set_var / drop_var
Stored(call, locals, globals, temp_vars, out) ==
    [ok |-> TRUE, e |-> "none", lock |-> TRUE, more |-> FALSE, call |-> call,
     locals |-> locals, globals |-> globals, temp_vars |-> temp_vars, out |-> out]
\* an error, or a panic, raised by an argument of the call of set_var, which is
\* evaluated after the receiver script.lock().unwrap(): the guard is alive
FailLocked(e, locals, globals, temp_vars, out) ==
    [ok |-> FALSE, e |-> e, lock |-> TRUE, more |-> FALSE, call |-> NoCall,
     locals |-> locals, globals |-> globals, temp_vars |-> temp_vars, out |-> out]
PanicLocked(locals, globals, temp_vars, out) ==
    FailLocked("panic", locals, globals, temp_vars, out)
\* the statement is done and the arm goes on to its next statement that locks
More(o) == [o EXCEPT !.more = o.ok]

\* the call is made: the tables as set_var or drop_var leaves them, or its error
Commit(o, global) ==
    IF o.call.kind = "none" THEN o
    ELSE The({ [o EXCEPT !.ok = r.ok, !.e = r.e, !.more = @ /\ r.ok,
                         !.locals = r.locals, !.globals = r.globals,
                         !.temp_vars = IF r.ok /\ o.call.temp
                                       THEN Append(@, o.call.name) ELSE @]
               : r \in {IF o.call.kind = "set"
                        THEN set_var(o.call.name, o.call.v, global, o.call.init,
                                     o.locals, o.globals)
                        ELSE drop_var(o.call.name, o.locals, o.globals)} })

\* one statement that reads: get_var of the argument at position arg, or get_function
Rd(i) == [fn |-> FALSE, arg |-> i]
Fn(i) == [fn |-> TRUE, arg |-> i]

\* the statements of each arm that read, in the order of the arm
Reads(cmd) ==
    CASE cmd.op \in {"SET_VAR", "MOVE_VAR", "COPY_VAR", "HAS_VAR", "TO_STRING", "TO_CHARS",
                     "TO_INTEGER", "TO_FLOAT", "TO_BOOL", "TO_CHAR", "LIST_SIZE", "MAP_SIZE",
                     "STRING_SIZE", "NOT", "HAS_OPTIONAL", "UNPACK_OPTIONAL",
                     "PACK_OPTIONAL", "NONE_OPTIONAL", "OPEN_FILE_IN", "OPEN_FILE_OUT",
                     "SLEEP"} -> << Rd(1) >>
      [] cmd.op \in {"ADD_STR", "ADD_INT", "ADD_FLOAT"} -> << Rd(2), Rd(1) >>
      [] cmd.op \in {"WRITE", "READ_ALL", "GET_SYMBOL", "GET_ITEM", "GET_VALUE", "EQUALS",
                     "MORE", "LESS", "AND", "OR", "HAS_STR", "HAS_ITEM", "HAS_KEY",
                     "HAS_VALUE", "RANDOM"} -> << Rd(1), Rd(2) >>
      [] cmd.op \in {"HAS_ENTRY", "READ"} -> << Rd(1), Rd(2), Rd(3) >>
      [] cmd.op \in {"SUB_STR", "SUB_LIST"} -> << Rd(1), Rd(2), Rd(2) >>
      [] cmd.op = "USE_FUNC" -> << Fn(1) >> \o [i \in 1..(Len(cmd.args) - 2) |-> Rd(i + 2)]
      [] cmd.op = "FOR" -> << Rd(2), Rd(3), Fn(1) >>
      [] cmd.op \in {"FOR_LIST", "FOR_MAP", "FOR_STRING"} -> << Rd(2), Fn(1) >>
      [] cmd.op = "IF" -> << Fn(2), Rd(1) >>
      [] cmd.op \in {"WHILE", "NEW_THREAD"} -> << Fn(1) >>
      [] OTHER -> <<>>

\* a statement the arm has not run yet
Pending == VErr("pending")
Pad(held, n) ==
    IF Len(held) < n THEN held \o [i \in 1..(n - Len(held)) |-> Pending] ELSE held

ExecInitVar(cmd, held, global, L, G, tv, out) ==
    The({ IF ~type_var.ok THEN Fail(type_var.e, L, G, tv, out)
          ELSE Stored(SetVar(cmd.args[2], empty_var(type_var.t), TRUE), L, G, tv, out)
          : type_var \in {from_name(Chars(cmd.args[1]))} })

\* SET_VAR once the text is parsed with the type the variable had when it was read
SetVarParsed(name_var, var, global, L, G, tv, out) ==
    IF ~var.ok THEN Fail(var.e, L, G, tv, out)
    ELSE Stored(SetVar(name_var, var.v, FALSE), L, G, tv, out)

ExecSetVar(cmd, held, global, L, G, tv, out) ==
    The({ IF ~cur.ok THEN Fail(cur.e, L, G, tv, out)
          ELSE SetVarParsed(cmd.args[1], parse_var(get_type(cur.v), JoinSpace(Tail(cmd.args))),
                            global, L, G, tv, out)
          : cur \in {held[1]} })

\* TEMP_VAR once the value is parsed: the store, then temp_vars.push(name_var)
TempVarParsed(name_var, var, global, L, G, tv, out) ==
    IF ~var.ok THEN FailLocked(var.e, L, G, tv, out)
    ELSE Stored([SetVar(name_var, var.v, TRUE) EXCEPT !.temp = TRUE], L, G, tv, out)

\* TEMP_VAR: from_name and parse_var are arguments of the call of set_var
ExecTempVar(cmd, held, global, L, G, tv, out) ==
    The({ IF ~type_var.ok THEN FailLocked(type_var.e, L, G, tv, out)
          ELSE TempVarParsed(cmd.args[2],
                             parse_var(type_var.t, JoinSpace(SubSeq(cmd.args, 3, Len(cmd.args)))),
                             global, L, G, tv, out)
          : type_var \in {from_name(Chars(cmd.args[1]))} })

\* MOVE_VAR once the value is stored under the target: the statement that drops the source
MoveVarKept(source_var, L, G, tv, out) == Stored(NoCall, L, G, tv, out)
MoveVarStored(source_var, L, G, tv, out) == Stored(DropVar(source_var), L, G, tv, out)

\* MOVE_VAR: the source is read, the value is stored under the target, the source is
\* dropped, in three statements
ExecMoveVar(cmd, held, global, L, G, tv, out) ==
    IF ~held[1].ok THEN Fail(held[1].e, L, G, tv, out)
    ELSE IF Len(held) = 1
    THEN More(Stored(SetVar(cmd.args[2], held[1].v, FALSE), L, G, tv, out))
    ELSE MoveVarStored(cmd.args[1], L, G, tv, out)

ExecCopyVar(cmd, held, global, L, G, tv, out) ==
    IF ~held[1].ok THEN Fail(held[1].e, L, G, tv, out)
    ELSE Stored(SetVar(cmd.args[2], held[1].v, FALSE), L, G, tv, out)

ExecDropVar(cmd, held, global, L, G, tv, out) ==
    Stored(DropVar(cmd.args[1]), L, G, tv, out)

ExecHasVar(cmd, held, global, L, G, tv, out) ==
    Stored(SetVar(cmd.args[2], from_bool(held[1].ok), FALSE), L, G, tv, out)

\* String::from_utf8: the bytes from position i on are well-formed UTF-8
RECURSIVE Utf8From(_, _)
Utf8From(bytes, i) ==
    IF i > Len(bytes) THEN TRUE
    ELSE LET b == bytes[i]
             Cont(j, lo, hi) == j <= Len(bytes) /\ bytes[j] >= lo /\ bytes[j] <= hi
         IN IF b < 128 THEN Utf8From(bytes, i + 1)
            ELSE IF b >= 194 /\ b <= 223
            THEN Cont(i + 1, 128, 191) /\ Utf8From(bytes, i + 2)
            ELSE IF b >= 224 /\ b <= 239
            THEN /\ Cont(i + 1, IF b = 224 THEN 160 ELSE 128, IF b = 237 THEN 159 ELSE 191)
                 /\ Cont(i + 2, 128, 191)
                 /\ Utf8From(bytes, i + 3)
            ELSE IF b >= 240 /\ b <= 244
            THEN /\ Cont(i + 1, IF b = 240 THEN 144 ELSE 128, IF b = 244 THEN 143 ELSE 191)
                 /\ Cont(i + 2, 128, 191)
                 /\ Cont(i + 3, 128, 191)
                 /\ Utf8From(bytes, i + 4)
            ELSE FALSE
Utf8Ok(bytes) == Utf8From(bytes, 1)

\* the bytes WRITE sends: a List whose descriptor is Char, a String, or a Char
WriteBytes(text) ==
    IF text.t.k = "List" /\ text.t = TChar /\ text.init
    THEN IF \A i \in 1..Len(text.items) : as_char(text.items[i]).ok
         THEN [ok |-> TRUE, s |-> [i \in 1..Len(text.items) |-> text.items[i].sc[1]]]
         ELSE [ok |-> FALSE, s |-> <<>>]
    ELSE IF text.t.k = "String" /\ text.init THEN [ok |-> TRUE, s |-> text.sc]
    ELSE IF text.t.k = "Char" /\ text.init THEN [ok |-> TRUE, s |-> text.sc]
    ELSE [ok |-> FALSE, s |-> <<>>]

\* the text ADD_STR appends: the chars of a List whose own descriptor is Char (no list
\* there is has it), a String, or a Char
AddStrText(other_var) ==
    IF other_var.t.k = "List" /\ other_var.t = TChar /\ other_var.init
    THEN (IF ~WriteBytes(other_var).ok THEN TextErr("TypeMismatchError")
          ELSE IF Utf8Ok(WriteBytes(other_var).s) THEN TextOk(WriteBytes(other_var).s)
          ELSE TextErr("StringUTF8Error"))
    ELSE IF other_var.t.k = "String" /\ other_var.init THEN TextOk(other_var.sc)
    ELSE IF other_var.t.k = "Char" /\ other_var.init
    THEN (IF Utf8Ok(other_var.sc) THEN TextOk(other_var.sc) ELSE TextErr("StringUTF8Error"))
    ELSE TextErr("TypeMismatchError")

\* ADD_STR: the operand is read and turned into text, the target is read, the two texts
\* joined are stored
ExecAddStr(cmd, held, global, L, G, tv, out) ==
    The({ IF ~other_var.ok THEN Fail(other_var.e, L, G, tv, out)
          ELSE IF ~AddStrText(other_var.v).ok
               THEN Fail(AddStrText(other_var.v).e, L, G, tv, out)
          ELSE IF ~var.ok THEN Fail(var.e, L, G, tv, out)
          ELSE IF ~as_str(var.v).ok THEN Fail("TypeMismatchError", L, G, tv, out)
          ELSE Stored(SetVar(cmd.args[1],
                             from_str(as_str(var.v).s \o AddStrText(other_var.v).s),
                             FALSE), L, G, tv, out)
          : other_var \in {held[1]}, var \in {held[2]} })

\* WRITE: the text is read and turned into bytes, the stream is read; then write_all
\* sends the bytes (StreamCall)
ExecWrite(cmd, held, global, L, G, tv, out) ==
    The({ IF ~text.ok THEN Fail(text.e, L, G, tv, out)
          ELSE IF ~WriteBytes(text.v).ok THEN Fail("TypeMismatchError", L, G, tv, out)
          ELSE IF ~stream_var.ok THEN Fail(stream_var.e, L, G, tv, out)
          ELSE IF ~as_out_stream(stream_var.v).ok THEN Fail("TypeMismatchError", L, G, tv, out)
          ELSE Done(L, G, tv, out)
          : text \in {held[1]}, stream_var \in {held[2]} })

\* `n as usize` of an isize n: the same 64 bits
as_usize(n) == n

\* seq[start_index..end_index]: the slice, or the panic of an index out of range
Slice(seq, start_index, end_index) ==
    IF /\ Fits(start_index) /\ AtMost(end_index, Len(seq))
       /\ Small(start_index) <= Small(end_index)
    THEN [ok |-> TRUE, s |-> SubSeq(seq, Small(start_index) + 1, Small(end_index))]
    ELSE [ok |-> FALSE, s |-> <<>>]

\* text[start_index..end_index] of a str: the slice, or the panic of an index out of
\* range or inside a character
StrSlice(text, start_index, end_index) ==
    IF /\ Slice(text, start_index, end_index).ok
       /\ is_char_boundary(text, Small(start_index))
       /\ is_char_boundary(text, Small(end_index))
    THEN Slice(text, start_index, end_index)
    ELSE [ok |-> FALSE, s |-> <<>>]

\* the second argument of SUB_STR / SUB_LIST names both indexes (the third is not read)
SubEndArg(cmd) == cmd.args[2]

ExecSubStr(cmd, held, global, L, G, tv, out) ==
    The({ IF ~str_var.ok THEN Fail(str_var.e, L, G, tv, out)
          ELSE IF ~as_str(str_var.v).ok THEN Fail("TypeMismatchError", L, G, tv, out)
          ELSE IF ~start_index.ok THEN Fail(start_index.e, L, G, tv, out)
          ELSE IF ~as_int(start_index.v).ok THEN Fail("TypeMismatchError", L, G, tv, out)
          ELSE IF ~end_index.ok THEN Fail(end_index.e, L, G, tv, out)
          ELSE IF ~as_int(end_index.v).ok THEN Fail("TypeMismatchError", L, G, tv, out)
          ELSE The({ IF ~part.ok THEN PanicLocked(L, G, tv, out)
                     ELSE Stored(SetVar(cmd.args[1], from_str(part.s), FALSE), L, G,
                                 tv, out)
                     : part \in {StrSlice(as_str(str_var.v).s,
                                          as_usize(as_int(start_index.v).n),
                                          as_usize(as_int(end_index.v).n))} })
          : str_var \in {held[1]}, start_index \in {held[2]}, end_index \in {held[3]} })

ExecSubList(cmd, held, global, L, G, tv, out) ==
    The({ IF ~list_var.ok THEN Fail(list_var.e, L, G, tv, out)
          ELSE IF ~start_index.ok THEN Fail(start_index.e, L, G, tv, out)
          ELSE IF ~as_int(start_index.v).ok THEN Fail("TypeMismatchError", L, G, tv, out)
          ELSE IF ~end_index.ok THEN Fail(end_index.e, L, G, tv, out)
          ELSE IF ~as_int(end_index.v).ok THEN Fail("TypeMismatchError", L, G, tv, out)
          ELSE IF ~as_list(list_var.v).ok THEN FailLocked("TypeMismatchError", L, G, tv, out)
          ELSE The({ IF ~part.ok THEN PanicLocked(L, G, tv, out)
                     ELSE Stored(SetVar(cmd.args[1],
                                        from_list(part.s, get_type(list_var.v)),
                                        FALSE), L, G, tv, out)
                     : part \in {Slice(as_list(list_var.v).s,
                                       as_usize(as_int(start_index.v).n),
                                       as_usize(as_int(end_index.v).n))} })
          : list_var \in {held[1]}, start_index \in {held[2]}, end_index \in {held[3]} })

\* LIST_SIZE, MAP_SIZE and STRING_SIZE: all three take the length of as_list()
ExecSize(cmd, held, global, L, G, tv, out) ==
    The({ IF ~var.ok THEN Fail(var.e, L, G, tv, out)
          ELSE IF ~as_list(var.v).ok THEN Fail("TypeMismatchError", L, G, tv, out)
          ELSE Stored(SetVar(cmd.args[2],
                             from_int(Isize(Len(as_list(var.v).s))),
                             FALSE), L, G, tv, out)
          : var \in {held[1]} })

\* TO_CHARS: from_list is handed the list type, not the element type
ToCharsType == TList(TChar)

ExecToChars(cmd, held, global, L, G, tv, out) ==
    The({ IF ~source_var.ok THEN Fail(source_var.e, L, G, tv, out)
          ELSE IF ~as_str(source_var.v).ok THEN Fail("TypeMismatchError", L, G, tv, out)
          ELSE Stored(SetVar(cmd.args[2],
                             from_list([i \in 1..Len(as_str(source_var.v).s) |->
                                           from_char(as_str(source_var.v).s[i])],
                                       ToCharsType),
                             FALSE), L, G, tv, out)
          : source_var \in {held[1]} })

\* value[index as usize] and value[&key_var]: the elements the indexing may give, or
\* the panic of an index out of range or of a key the lookup does not find; GET_VALUE
\* takes the key as it is, GET_SYMBOL and GET_ITEM want an Integer first
Indexed(op, container, key_var) ==
    IF op = "GET_VALUE"
    THEN IF container.t.k = "Map" /\ container.init
         THEN { IF j = 0 THEN VErr("panic") ELSE VOk(container.items[j].items[2])
                : j \in MapGet(container, key_var) }
         ELSE {VErr("TypeMismatchError")}
    ELSE IF ~as_int(key_var).ok THEN {VErr("TypeMismatchError")}
    ELSE IF op = "GET_SYMBOL"
    THEN IF ~as_str(container).ok THEN {VErr("TypeMismatchError")}
         ELSE IF ~Below(as_usize(as_int(key_var).n), Len(container.sc)) THEN {VErr("panic")}
         ELSE {VOk(from_char(container.sc[Small(as_usize(as_int(key_var).n)) + 1]))}
    ELSE IF ~as_list(container).ok THEN {VErr("TypeMismatchError")}
         ELSE IF ~Below(as_usize(as_int(key_var).n), Len(container.items)) THEN {VErr("panic")}
         ELSE {VOk(container.items[Small(as_usize(as_int(key_var).n)) + 1])}

\* GET_SYMBOL, GET_ITEM, GET_VALUE: the container and the key are read, the element is
\* taken (a statement of its own), the element is stored
ExecGet(cmd, held, global, L, G, tv, out) ==
    IF ~held[1].ok THEN {Fail(held[1].e, L, G, tv, out)}
    ELSE IF ~held[2].ok THEN {Fail(held[2].e, L, G, tv, out)}
    ELSE { IF ~result.ok THEN Fail(result.e, L, G, tv, out)
           ELSE Stored(SetVar(cmd.args[3], result.v, FALSE), L, G, tv, out)
           : result \in Indexed(cmd.op, held[1].v, held[2].v) }

ExecToString(cmd, held, global, L, G, tv, out) ==
    The({ IF ~source_var.ok THEN Fail(source_var.e, L, G, tv, out)
          ELSE The({ IF ~text.ok THEN Fail(text.e, L, G, tv, out)
                     ELSE Stored(SetVar(cmd.args[2], from_str(text.s), FALSE), L, G,
                                 tv, out)
                     : text \in {to_string(source_var.v)} })
          : source_var \in {held[1]} })

\* TO_INTEGER and TO_FLOAT: the text of a String, parsed
ExecToNumber(cmd, held, global, L, G, tv, out) ==
    The({ IF ~source_var.ok THEN Fail(source_var.e, L, G, tv, out)
          ELSE IF ~as_str(source_var.v).ok THEN Fail("TypeMismatchError", L, G, tv, out)
          ELSE The({ IF ~result.ok THEN Fail("ParseVarError", L, G, tv, out)
                     ELSE Stored(SetVar(cmd.args[2],
                                        IF cmd.op = "TO_INTEGER" THEN from_int(result.n)
                                        ELSE from_float(result.n),
                                        FALSE), L, G, tv, out)
                     : result \in {IF cmd.op = "TO_INTEGER"
                                   THEN ParseIsize(as_str(source_var.v).s)
                                   ELSE ParseF64(as_str(source_var.v).s)} })
          : source_var \in {held[1]} })

\* the truth TO_BOOL gives a value
Truth(v) ==
    CASE v.t.k \in {"List", "Map", "Optional"} /\ v.init -> v.items # <<>>
      [] v.t.k = "String" /\ v.init -> v.sc \in {<<116, 114, 117, 101>>, <<49>>}
      [] v.t.k = "Char" /\ v.init -> v.sc[1] # 0
      [] v.t.k = "Integer" /\ v.init -> v.sc # Isize(0)
      [] v.t.k = "Float" /\ v.init -> ~F64Eq(v.sc, F64Zero(FALSE))
      [] v.t.k = "Bool" /\ v.init -> v.sc[1] = 1
      [] v.t.k \in {"OutStream", "InStream"} /\ v.init -> TRUE
      [] OTHER -> FALSE

ExecToBool(cmd, held, global, L, G, tv, out) ==
    IF ~held[1].ok THEN Fail(held[1].e, L, G, tv, out)
    ELSE Stored(SetVar(cmd.args[2], from_bool(Truth(held[1].v)), FALSE), L, G,
                tv, out)

\* the char TO_CHAR gives a value: the first byte of a String (there is none in an
\* empty one: a panic), a Char, the low byte of an Integer
CharOf(v) ==
    IF v.t.k = "String" /\ v.init
    THEN (IF v.sc = <<>> THEN [ok |-> FALSE, e |-> "panic", n |-> 0]
          ELSE [ok |-> TRUE, e |-> "none", n |-> v.sc[1]])
    ELSE IF v.t.k = "Char" /\ v.init THEN [ok |-> TRUE, e |-> "none", n |-> v.sc[1]]
    ELSE IF v.t.k = "Integer" /\ v.init THEN [ok |-> TRUE, e |-> "none", n |-> v.sc[1] % 256]
    ELSE [ok |-> FALSE, e |-> "TypeMismatchError", n |-> 0]

ExecToChar(cmd, held, global, L, G, tv, out) ==
    IF ~held[1].ok THEN Fail(held[1].e, L, G, tv, out)
    ELSE IF ~CharOf(held[1].v).ok THEN Fail(CharOf(held[1].v).e, L, G, tv, out)
    ELSE Stored(SetVar(cmd.args[2], from_char(CharOf(held[1].v).n), FALSE), L, G,
                tv, out)

ExecHasOptional(cmd, held, global, L, G, tv, out) ==
    The({ IF ~optional_var.ok THEN Fail(optional_var.e, L, G, tv, out)
          ELSE IF ~as_option(optional_var.v).ok THEN Fail("TypeMismatchError", L, G, tv, out)
          ELSE Stored(SetVar(cmd.args[2],
                             from_bool(as_option(optional_var.v).s # <<>>),
                             FALSE), L, G, tv, out)
          : optional_var \in {held[1]} })

\* the value UNPACK_OPTIONAL stores: the content of the optional, None is an error
UnpackValue(content) ==
    IF content = <<>> THEN VErr("ParseVarError") ELSE VOk(content[1])

\* UNPACK_OPTIONAL: ok_or(ParseVarError) is an argument of the call of set_var
ExecUnpackOptional(cmd, held, global, L, G, tv, out) ==
    The({ IF ~optional_var.ok THEN Fail(optional_var.e, L, G, tv, out)
          ELSE IF ~as_option(optional_var.v).ok THEN Fail("TypeMismatchError", L, G, tv, out)
          ELSE IF ~UnpackValue(as_option(optional_var.v).s).ok
               THEN FailLocked(UnpackValue(as_option(optional_var.v).s).e, L, G, tv, out)
          ELSE Stored(SetVar(cmd.args[2],
                             UnpackValue(as_option(optional_var.v).s).v,
                             FALSE), L, G, tv, out)
          : optional_var \in {held[1]} })

ExecPackOptional(cmd, held, global, L, G, tv, out) ==
    The({ IF ~var.ok THEN Fail(var.e, L, G, tv, out)
          ELSE Stored(SetVar(cmd.args[2],
                             from_optional(<<var.v>>, get_type(var.v)),
                             FALSE), L, G, tv, out)
          : var \in {held[1]} })

\* NONE_OPTIONAL: get_option_type()? is an argument of the call of set_var
ExecNoneOptional(cmd, held, global, L, G, tv, out) ==
    The({ IF ~var.ok THEN Fail(var.e, L, G, tv, out)
          ELSE IF ~get_option_type(var.v).ok
               THEN FailLocked(get_option_type(var.v).e, L, G, tv, out)
          ELSE Stored(SetVar(cmd.args[1],
                             from_optional(<<>>, get_option_type(var.v).t),
                             FALSE), L, G, tv, out)
          : var \in {held[1]} })

ExecEquals(cmd, held, global, L, G, tv, out) ==
    The({ IF ~var.ok THEN Fail(var.e, L, G, tv, out)
          ELSE IF ~other_var.ok THEN Fail(other_var.e, L, G, tv, out)
          ELSE Stored(SetVar(cmd.args[3],
                             from_bool(VarEq(var.v, other_var.v)),
                             FALSE), L, G, tv, out)
          : var \in {held[1]}, other_var \in {held[2]} })

\* a < b of two isize
IsizeLess(a, b) ==
    IF IsNegative(a) # IsNegative(b) THEN IsNegative(a)
    ELSE \E i \in 1..4 : a[i] < b[i] /\ \A j \in (i + 1)..4 : a[j] = b[j]

\* the operands MORE and LESS compare: an initialized Float, Integer or Char
Ordered(v) == v.t.k \in {"Float", "Integer", "Char"} /\ v.init
\* `v as f64` and `v as isize` of the payload of an Integer or a Char
AsIsize(v) == IF v.t.k = "Char" THEN Isize(v.sc[1]) ELSE v.sc
AsF64(v) == IF v.t.k = "Float" THEN v.sc ELSE F64OfIsize(AsIsize(v))

\* a < b as MORE and LESS compare them: as f64 when one of the two is a Float, as isize
\* otherwise
LessThan(a, b) ==
    IF a.t.k = "Float" \/ b.t.k = "Float"
    THEN The({ F64Less(f[1], f[2]) : f \in {SubSeq([i \in 1..2 |-> AsF64(<<a, b>>[i])], 1, 2)} })
    ELSE IsizeLess(AsIsize(a), AsIsize(b))

\* MORE (var > other_var) and LESS (var < other_var)
ExecCompare(cmd, held, global, L, G, tv, out) ==
    The({ IF ~var.ok THEN Fail(var.e, L, G, tv, out)
          ELSE IF ~other_var.ok THEN Fail(other_var.e, L, G, tv, out)
          ELSE IF ~Ordered(var.v) \/ ~Ordered(other_var.v)
          THEN Fail("TypeMismatchError", L, G, tv, out)
          ELSE The({ Stored(SetVar(cmd.args[3], from_bool(LessThan(p[1], p[2])), FALSE),
                            L, G, tv, out)
                     : p \in {IF cmd.op = "MORE" THEN << other_var.v, var.v >>
                              ELSE << var.v, other_var.v >>} })
          : var \in {held[1]}, other_var \in {held[2]} })

\* AND and OR: both operands are read, each as a bool
ExecLogic(cmd, held, global, L, G, tv, out) ==
    The({ IF ~var.ok THEN Fail(var.e, L, G, tv, out)
          ELSE IF ~as_bool(var.v).ok THEN Fail("TypeMismatchError", L, G, tv, out)
          ELSE IF ~other_var.ok THEN Fail(other_var.e, L, G, tv, out)
          ELSE IF ~as_bool(other_var.v).ok THEN Fail("TypeMismatchError", L, G, tv, out)
          ELSE Stored(SetVar(cmd.args[3],
                             from_bool(IF cmd.op = "AND"
                                       THEN as_bool(var.v).n = 1 /\ as_bool(other_var.v).n = 1
                                       ELSE as_bool(var.v).n = 1 \/ as_bool(other_var.v).n = 1),
                             FALSE), L, G, tv, out)
          : var \in {held[1]}, other_var \in {held[2]} })

ExecNot(cmd, held, global, L, G, tv, out) ==
    The({ IF ~var.ok THEN Fail(var.e, L, G, tv, out)
          ELSE IF ~as_bool(var.v).ok THEN Fail("TypeMismatchError", L, G, tv, out)
          ELSE Stored(SetVar(cmd.args[2],
                             from_bool(as_bool(var.v).n # 1),
                             FALSE), L, G, tv, out)
          : var \in {held[1]} })

\* str::contains
Contains(text, sub) ==
    \E i \in 0..(Len(text) - Len(sub)) : SubSeq(text, i + 1, i + Len(sub)) = sub

ExecHasStr(cmd, held, global, L, G, tv, out) ==
    The({ IF ~string_var.ok THEN Fail(string_var.e, L, G, tv, out)
          ELSE IF ~as_str(string_var.v).ok THEN Fail("TypeMismatchError", L, G, tv, out)
          ELSE IF ~substring.ok THEN Fail(substring.e, L, G, tv, out)
          ELSE IF ~as_str(substring.v).ok THEN Fail("TypeMismatchError", L, G, tv, out)
          ELSE Stored(SetVar(cmd.args[3],
                             from_bool(Contains(as_str(string_var.v).s,
                                                as_str(substring.v).s)),
                             FALSE), L, G, tv, out)
          : string_var \in {held[1]}, substring \in {held[2]} })

ExecHasItem(cmd, held, global, L, G, tv, out) ==
    The({ IF ~list_var.ok THEN Fail(list_var.e, L, G, tv, out)
          ELSE IF ~as_list(list_var.v).ok THEN Fail("TypeMismatchError", L, G, tv, out)
          ELSE IF ~item_var.ok THEN Fail(item_var.e, L, G, tv, out)
          ELSE Stored(SetVar(cmd.args[3],
                             from_bool(\E i \in 1..Len(list_var.v.items) :
                                          VarEq(list_var.v.items[i], item_var.v)),
                             FALSE), L, G, tv, out)
          : list_var \in {held[1]}, item_var \in {held[2]} })

\* HAS_KEY, HAS_VALUE and HAS_ENTRY: the loop over the entries compares with ==
ExecHasInMap(cmd, held, global, L, G, tv, out) ==
    IF ~held[1].ok THEN Fail(held[1].e, L, G, tv, out)
    ELSE IF ~as_map(held[1].v).ok THEN Fail("TypeMismatchError", L, G, tv, out)
    ELSE IF ~held[2].ok THEN Fail(held[2].e, L, G, tv, out)
    ELSE IF cmd.op = "HAS_ENTRY" /\ ~held[3].ok THEN Fail(held[3].e, L, G, tv, out)
    ELSE Stored(SetVar(cmd.args[Len(cmd.args)],
                       from_bool(\E i \in 1..Len(held[1].v.items) :
                          CASE cmd.op = "HAS_KEY" ->
                                  VarEq(held[1].v.items[i].items[1], held[2].v)
                            [] cmd.op = "HAS_VALUE" ->
                                  VarEq(held[1].v.items[i].items[2], held[2].v)
                            [] cmd.op = "HAS_ENTRY" ->
                                  VarEq(held[1].v.items[i].items[1], held[2].v)
                                     /\ VarEq(held[1].v.items[i].items[2], held[3].v)),
                       FALSE), L, G, tv, out)

\* Vec::with_capacity(n): room for n bytes, none of them there yet. A capacity above
\* isize::MAX is a panic; the allocation of a capacity that memory has no room for
\* ends the process (handle_alloc_error): one of 2^48 bytes or more never has room,
\* one of 2^30 bytes or more may have none
WithCapacity(n) ==
    IF IsNegative(n) THEN {[e |-> "panic", s |-> <<>>]}
    ELSE IF n[4] # 0 THEN {[e |-> "abort", s |-> <<>>]}
    ELSE IF ~Fits(n) THEN {[e |-> "abort", s |-> <<>>], [e |-> "none", s |-> <<>>]}
    ELSE {[e |-> "none", s |-> <<>>]}

\* read_exact(&mut buffer): as many of the next bytes as the buffer is long, taken off
\* the stream; fewer bytes left than that is an error
ReadExact(bytes, buffer) ==
    IF Len(buffer) <= Len(bytes)
    THEN [ok |-> TRUE, s |-> SubSeq(bytes, 1, Len(buffer)),
          rest |-> SubSeq(bytes, Len(buffer) + 1, Len(bytes))]
    ELSE [ok |-> FALSE, s |-> <<>>, rest |-> bytes]

\* the value READ stores: a list of chars for a List whose own descriptor is Char (no
\* list there is has it), a string for a String
ReadValue(var, buffer) ==
    IF var.t.k = "List" /\ var.t = TChar
    THEN VOk(from_list([i \in 1..Len(buffer) |-> from_char(buffer[i])], TList(TChar)))
    ELSE IF var.t.k = "String"
    THEN (IF Utf8Ok(buffer) THEN VOk(from_str(buffer)) ELSE VErr("StringUTF8Error"))
    ELSE VErr("TypeMismatchError")

\* READ and READ_ALL once the stream has given the bytes (the last of held): the value
\* is made of them by an argument of the call of set_var
ReadStore(cmd, var, buffer, global, L, G, tv, out) ==
    IF ~ReadValue(var, buffer).ok THEN FailLocked(ReadValue(var, buffer).e, L, G, tv, out)
    ELSE Stored(SetVar(cmd.args[1], ReadValue(var, buffer).v, FALSE), L, G, tv, out)

\* READ: the target, the size and the stream are read and the buffer is made; then
\* read_exact fills the buffer; then the value is stored
ExecRead(cmd, held, global, L, G, tv, out) ==
    The({ IF ~var.ok THEN {Fail(var.e, L, G, tv, out)}
          ELSE IF ~size_var.ok THEN {Fail(size_var.e, L, G, tv, out)}
          ELSE IF ~as_int(size_var.v).ok THEN {Fail("TypeMismatchError", L, G, tv, out)}
          ELSE IF ~stream_var.ok THEN {Fail(stream_var.e, L, G, tv, out)}
          ELSE IF ~as_in_stream(stream_var.v).ok THEN {Fail("TypeMismatchError", L, G, tv, out)}
          ELSE IF Len(held) = 3
          THEN { IF buffer.e # "none" THEN Fail(buffer.e, L, G, tv, out)
                 ELSE Done(L, G, tv, out)
                 : buffer \in WithCapacity(as_usize(as_int(size_var.v).n)) }
          ELSE {ReadStore(cmd, var.v, held[4].v.sc, global, L, G, tv, out)}
          : var \in {held[1]}, size_var \in {held[2]}, stream_var \in {held[3]} })

\* READ_ALL: the target and the stream are read; then read_to_end takes all the stream
\* has left; then the value is stored
ExecReadAll(cmd, held, global, L, G, tv, out) ==
    The({ IF ~var.ok THEN Fail(var.e, L, G, tv, out)
          ELSE IF ~stream_var.ok THEN Fail(stream_var.e, L, G, tv, out)
          ELSE IF ~as_in_stream(stream_var.v).ok THEN Fail("TypeMismatchError", L, G, tv, out)
          ELSE IF Len(held) = 2 THEN Done(L, G, tv, out)
          ELSE ReadStore(cmd, var.v, held[3].v.sc, global, L, G, tv, out)
          : var \in {held[1]}, stream_var \in {held[2]} })

\* SLEEP: the time is read, an initialized Integer or Float; then thread::sleep
ExecSleep(cmd, held, global, L, G, tv, out) ==
    The({ IF ~time_var.ok THEN Fail(time_var.e, L, G, tv, out)
          ELSE IF time_var.v.t.k \in {"Integer", "Float"} /\ time_var.v.init
          THEN Done(L, G, tv, out)
          ELSE Fail("TypeMismatchError", L, G, tv, out)
          : time_var \in {held[1]} })

\* the arms of Command::execute that call thread::sleep or a method of a stream
BlockingOps == {"SLEEP", "WRITE", "READ", "READ_ALL"}

\* whether a guard of script.lock() is alive when the arm makes that call
GuardKept(op) == op \in BlockingOps
\* each lock() of these arms is a temporary of a `let` statement that ends before the call
GuardAlive(op) == FALSE

\* the call of the stream (thread::sleep for SLEEP): the bytes it gives the arm and
\* what the streams hold after it
StreamCall(cmd, held, out) ==
    CASE cmd.op = "WRITE" ->
            [got |-> <<>>,
             out |-> [out EXCEPT ![as_out_stream(held[2].v).n] = @ \o WriteBytes(held[1].v).s]]
      [] cmd.op = "READ" ->
            The({ [got |-> r.s, out |-> [out EXCEPT ![as_in_stream(held[3].v).n] = r.rest]]
                  : r \in {ReadExact(out[as_in_stream(held[3].v).n], <<>>)} })
      [] cmd.op = "READ_ALL" ->
            [got |-> out[as_in_stream(held[2].v).n],
             out |-> [out EXCEPT ![as_in_stream(held[2].v).n] = <<>>]]
      [] OTHER -> [got |-> <<>>, out |-> out]

\* fs::read: the one file there is is the script itself, whose path is the first process
\* argument; its bytes
FileExists(path) == path = Chars("hi")
FileBytes(path) == <<35, 104, 105>>
\* what standard input holds
StdinBytes == <<104, 105, 33>>

\* a stream handle (an Arc) no stream has had
NewHandle(out) == 1 + Cardinality(DOMAIN out \cup {1, 2})

\* OPEN_FILE_IN: a stream over the bytes of the file; OPEN_FILE_OUT: a FileOutStream,
\* which collects what is written to it (bytes_wrote, empty at first)
ExecOpenFile(cmd, held, global, L, G, tv, out) ==
    The({ IF ~path_var.ok THEN Fail(path_var.e, L, G, tv, out)
          ELSE IF ~as_str(path_var.v).ok THEN Fail("TypeMismatchError", L, G, tv, out)
          ELSE IF ~FileExists(as_str(path_var.v).s)
          THEN Fail(IF cmd.op = "OPEN_FILE_IN" THEN "FileReadError" ELSE "FileWriteError",
                    L, G, tv, out)
          ELSE IF cmd.op = "OPEN_FILE_IN"
          THEN Stored(SetVar(cmd.args[2], from_in_stream(NewHandle(out)), FALSE), L, G,
                      tv, out @@ (NewHandle(out) :> FileBytes(as_str(path_var.v).s)))
          ELSE Stored(SetVar(cmd.args[2], from_out_stream(NewHandle(out)), FALSE), L, G,
                      tv, out @@ (NewHandle(out) :> <<>>))
          : path_var \in {held[1]} })

\* var + other_var of ADD_INT, when the sum fits an isize or overflow checks are off
AddIntSumDropped(var, other_var) == var
AddIntSum(var, other_var) == WrappingAdd(var, other_var)

\* the value of the target ADD_INT adds to: the one its read returned, whatever the
\* variable holds when the sum is written
AddIntTargetFresh(held, var_name, L, G) == as_int(get_var(var_name, L, G).v).n
AddIntTarget(held, var_name, L, G) == as_int(held[2].v).n

\* ADD_INT once both variables are read (the operand first, then the target): the sum
\* is an argument of the call of set_var; when it overflows, a build with overflow
\* checks panics and one without wraps
AddIntStore(var_name, other_var, var, global, L, G, tv, out) ==
    {Stored(SetVar(var_name, from_int(AddIntSum(var, other_var)), FALSE), L, G,
            tv, out)}
    \cup (IF AddOverflows(var, other_var) THEN {PanicLocked(L, G, tv, out)} ELSE {})

ExecAddInt(cmd, held, global, L, G, tv, out) ==
    The({ IF ~other_var.ok THEN {Fail(other_var.e, L, G, tv, out)}
          ELSE IF ~as_int(other_var.v).ok THEN {Fail("TypeMismatchError", L, G, tv, out)}
          ELSE IF ~var.ok THEN {Fail(var.e, L, G, tv, out)}
          ELSE IF ~as_int(var.v).ok THEN {Fail("TypeMismatchError", L, G, tv, out)}
          ELSE AddIntStore(cmd.args[1], as_int(other_var.v).n,
                           AddIntTarget(held, cmd.args[1], L, G), global, L, G, tv, out)
          : other_var \in {held[1]}, var \in {held[2]} })

ExecAddFloat(cmd, held, global, L, G, tv, out) ==
    The({ IF ~other_var.ok THEN Fail(other_var.e, L, G, tv, out)
          ELSE IF ~as_float(other_var.v).ok THEN Fail("TypeMismatchError", L, G, tv, out)
          ELSE IF ~var.ok THEN Fail(var.e, L, G, tv, out)
          ELSE IF ~as_float(var.v).ok THEN Fail("TypeMismatchError", L, G, tv, out)
          ELSE Stored(SetVar(cmd.args[1],
                             from_float(F64Add(as_float(var.v).n,
                                               as_float(other_var.v).n)),
                             FALSE), L, G, tv, out)
          : other_var \in {held[1]}, var \in {held[2]} })

\* every isize
IsizeValues == [1..4 -> 0..65535]

\* gen_range(min..=max): any value of the range; an empty range is a panic. The range
\* is counted up from min while max - min is small, and is the isize between min and
\* max otherwise
RandomValues(min, max) ==
    IF IsizeLess(max, min) THEN {}
    ELSE The({ IF Fits(span) THEN { WrappingAdd(min, IsizeNat(k)) : k \in 0..Small(span) }
               ELSE { n \in IsizeValues : ~IsizeLess(n, min) /\ ~IsizeLess(max, n) }
               : span \in {WrappingAdd(max, WrappingNeg(min))} })

ExecRandom(cmd, held, global, L, G, tv, out) ==
    The({ IF ~min_var.ok THEN {Fail(min_var.e, L, G, tv, out)}
          ELSE IF ~as_int(min_var.v).ok THEN {Fail("TypeMismatchError", L, G, tv, out)}
          ELSE IF ~max_var.ok THEN {Fail(max_var.e, L, G, tv, out)}
          ELSE IF ~as_int(max_var.v).ok THEN {Fail("TypeMismatchError", L, G, tv, out)}
          ELSE IF IsizeLess(as_int(max_var.v).n, as_int(min_var.v).n)
          THEN {Panic(L, G, tv, out)}
          ELSE { Stored(SetVar(cmd.args[3], from_int(result), FALSE), L, G, tv, out)
                 : result \in RandomValues(as_int(min_var.v).n, as_int(max_var.v).n) }
          : min_var \in {held[1]}, max_var \in {held[2]} })

\* the arms that do nothing but clone their arguments, and the `_ => {}` of the match
NoOps == {"IMPORT", "IMPORT_TEXT", "OPEN_TCP_CONNECTION", "OPEN_TCP_LISTENER",
          "FUNC", "FUNC_END"}

SimpleOps == {"INIT_VAR", "SET_VAR", "TEMP_VAR", "MOVE_VAR", "COPY_VAR", "DROP_VAR",
              "HAS_VAR", "ADD_STR", "ADD_INT", "ADD_FLOAT", "EQUALS", "MORE", "LESS",
              "AND", "OR", "NOT", "OPEN_FILE_IN", "OPEN_FILE_OUT", "SUB_STR", "SUB_LIST",
              "LIST_SIZE", "MAP_SIZE", "STRING_SIZE", "TO_CHARS", "TO_INTEGER",
              "TO_FLOAT", "TO_BOOL", "TO_CHAR", "HAS_STR", "HAS_ITEM", "HAS_ENTRY",
              "HAS_KEY", "HAS_VALUE", "RANDOM",
              "HAS_OPTIONAL", "UNPACK_OPTIONAL", "PACK_OPTIONAL", "NONE_OPTIONAL",
              "TO_STRING", "GET_SYMBOL", "GET_ITEM", "GET_VALUE"} \cup NoOps
CallOps == {"USE_FUNC", "FOR", "FOR_LIST", "FOR_MAP", "FOR_STRING", "IF", "WHILE"}

\* the match of Command::execute for the arms that call no function: the outcomes the
\* arm may have, given what its statements that read returned (a statement it has not
\* run yet is Pending, and so is an outcome that rests on one)
ExecSimple(cmd, held, global, L, G, tv, out) ==
    CASE cmd.op = "INIT_VAR" -> {ExecInitVar(cmd, held, global, L, G, tv, out)}
      [] cmd.op = "SET_VAR" -> {ExecSetVar(cmd, held, global, L, G, tv, out)}
      [] cmd.op = "TEMP_VAR" -> {ExecTempVar(cmd, held, global, L, G, tv, out)}
      [] cmd.op = "MOVE_VAR" -> {ExecMoveVar(cmd, held, global, L, G, tv, out)}
      [] cmd.op = "COPY_VAR" -> {ExecCopyVar(cmd, held, global, L, G, tv, out)}
      [] cmd.op = "DROP_VAR" -> {ExecDropVar(cmd, held, global, L, G, tv, out)}
      [] cmd.op = "HAS_VAR" -> {ExecHasVar(cmd, held, global, L, G, tv, out)}
      [] cmd.op = "ADD_STR" -> {ExecAddStr(cmd, held, global, L, G, tv, out)}
      [] cmd.op = "ADD_INT" -> ExecAddInt(cmd, held, global, L, G, tv, out)
      [] cmd.op = "ADD_FLOAT" -> {ExecAddFloat(cmd, held, global, L, G, tv, out)}
      [] cmd.op = "EQUALS" -> {ExecEquals(cmd, held, global, L, G, tv, out)}
      [] cmd.op \in {"MORE", "LESS"} -> {ExecCompare(cmd, held, global, L, G, tv, out)}
      [] cmd.op \in {"AND", "OR"} -> {ExecLogic(cmd, held, global, L, G, tv, out)}
      [] cmd.op = "NOT" -> {ExecNot(cmd, held, global, L, G, tv, out)}
      [] cmd.op \in {"OPEN_FILE_IN", "OPEN_FILE_OUT"} ->
            {ExecOpenFile(cmd, held, global, L, G, tv, out)}
      [] cmd.op = "SUB_STR" -> {ExecSubStr(cmd, held, global, L, G, tv, out)}
      [] cmd.op = "SUB_LIST" -> {ExecSubList(cmd, held, global, L, G, tv, out)}
      [] cmd.op \in {"LIST_SIZE", "MAP_SIZE", "STRING_SIZE"} ->
            {ExecSize(cmd, held, global, L, G, tv, out)}
      [] cmd.op = "TO_CHARS" -> {ExecToChars(cmd, held, global, L, G, tv, out)}
      [] cmd.op \in {"TO_INTEGER", "TO_FLOAT"} ->
            {ExecToNumber(cmd, held, global, L, G, tv, out)}
      [] cmd.op = "TO_BOOL" -> {ExecToBool(cmd, held, global, L, G, tv, out)}
      [] cmd.op = "TO_CHAR" -> {ExecToChar(cmd, held, global, L, G, tv, out)}
      [] cmd.op = "HAS_STR" -> {ExecHasStr(cmd, held, global, L, G, tv, out)}
      [] cmd.op = "HAS_ITEM" -> {ExecHasItem(cmd, held, global, L, G, tv, out)}
      [] cmd.op \in {"HAS_ENTRY", "HAS_KEY", "HAS_VALUE"} ->
            {ExecHasInMap(cmd, held, global, L, G, tv, out)}
      [] cmd.op = "RANDOM" -> ExecRandom(cmd, held, global, L, G, tv, out)
      [] cmd.op \in {"GET_SYMBOL", "GET_ITEM", "GET_VALUE"} ->
            ExecGet(cmd, held, global, L, G, tv, out)
      [] cmd.op = "TO_STRING" -> {ExecToString(cmd, held, global, L, G, tv, out)}
      [] cmd.op = "HAS_OPTIONAL" -> {ExecHasOptional(cmd, held, global, L, G, tv, out)}
      [] cmd.op = "UNPACK_OPTIONAL" -> {ExecUnpackOptional(cmd, held, global, L, G, tv, out)}
      [] cmd.op = "PACK_OPTIONAL" -> {ExecPackOptional(cmd, held, global, L, G, tv, out)}
      [] cmd.op = "NONE_OPTIONAL" -> {ExecNoneOptional(cmd, held, global, L, G, tv, out)}
      [] cmd.op \in NoOps -> {Done(L, G, tv, out)}

\* the match of Command::execute for the arms that call thread::sleep or a method of a
\* stream
ExecBlocking(cmd, held, global, L, G, tv, out) ==
    CASE cmd.op = "SLEEP" -> {ExecSleep(cmd, held, global, L, G, tv, out)}
      [] cmd.op = "WRITE" -> {ExecWrite(cmd, held, global, L, G, tv, out)}
      [] cmd.op = "READ" -> ExecRead(cmd, held, global, L, G, tv, out)
      [] cmd.op = "READ_ALL" -> {ExecReadAll(cmd, held, global, L, G, tv, out)}

----------------------------------------------------------------------------
(* The script: its function table and the vocabulary of its top-level list *)

Function(name, result_type, parameters, commands) ==
    [name |-> name, result_type |-> result_type, parameters |-> parameters,
     commands |-> commands]
Param(name, t) == [name |-> name, t |-> t]

\* script.functions, as cut_funcs leaves them
functions ==
    << Function("setg", TNull, <<>>,
           << Cmd("SET_VAR", <<"g", "7">>) >>),
       Function("shadow", TInteger, << Param("g", TInteger) >>,
           << Cmd("ADD_INT", <<"g", "g">>),
              Cmd("COPY_VAR", <<"g", "result">>) >>),
       Function("decl", TInteger, <<>>,
           << Cmd("INIT_VAR", <<"int", "loc">>),
              Cmd("SET_VAR", <<"loc", "5">>),
              Cmd("COPY_VAR", <<"loc", "result">>) >>),
       Function("ftemp", TNull, <<>>,
           << Cmd("TEMP_VAR", <<"string", "t", "hello">>),
              Cmd("WRITE", <<"t", "cout">>),
              Cmd("WRITE", <<"t", "cout">>) >>),
       Function("outer", TNull, <<>>,
           << Cmd("INIT_VAR", <<"int", "mine">>),
              Cmd("USE_FUNC", <<"decl", "mine">>),
              Cmd("USE_FUNC", <<"peek", "null">>) >>),
       Function("peek", TNull, <<>>,
           << Cmd("HAS_VAR", <<"mine", "b">>),
              Cmd("HAS_VAR", <<"loc", "b">>) >>),
       Function("each", TNull, << Param("e", TString) >>,
           << Cmd("WRITE", <<"e", "cout">>),
              Cmd("DROP_VAR", <<"args.0">>) >>),
       Function("count", TNull, << Param("i", TInteger) >>,
           << Cmd("ADD_INT", <<"g", "i">>) >>),
       Function("once", TBool, <<>>,
           << Cmd("SET_VAR", <<"result", "false">>) >>),
       Function("twice", TBool, <<>>,
           << Cmd("COPY_VAR", <<"more", "result">>),
              Cmd("SET_VAR", <<"more", "false">>) >>),
       Function("body", TNull, <<>>,
           << Cmd("WHILE", <<"once">>) >>),
       Function("pair", TInteger, << Param("a", TInteger), Param("b", TInteger) >>,
           << Cmd("COPY_VAR", <<"a", "result">>) >>),
       Function("bump", TNull, <<>>,
           << Cmd("TEMP_VAR", <<"int", "k", "5">>),
              Cmd("ADD_INT", <<"n", "k">>) >>),
       Function("broken", TNull, <<>>,
           << Cmd("COPY_VAR", <<"nope", "n">>),
              Cmd("SET_VAR", <<"n", "9">>) >>),
       Function("mv", TNull, << Param("g", TInteger) >>,
           << Cmd("MOVE_VAR", <<"g", "x">>) >>),
       Function("head", TNull, << Param("args", TList(TChar)) >>,
           << Cmd("COPY_VAR", <<"args.0", "h">>),
              Cmd("COPY_VAR", <<"args.1", "h">>) >>),
       Function("early", TInteger, <<>>,
           << Cmd("SET_VAR", <<"result", "3">>),
              Cmd("RETURN", <<>>),
              Cmd("SET_VAR", <<"g", "7">>) >>),
       Function("dropg", TNull, << Param("g", TInteger) >>,
           << Cmd("DROP_VAR", <<"g">>),
              Cmd("DROP_VAR", <<"g">>),
              Cmd("DROP_VAR", <<"g">>) >>),
       Function("stop", TBool, <<>>,
           << Cmd("SET_VAR", <<"result", "false">>),
              Cmd("RETURN", <<>>) >>),
       Function("kv", TNull, << Param("k", TInteger), Param("v", TString) >>,
           << Cmd("DROP_VAR", <<"k">>) >>) >>

NoFunction == Function("", TNull, <<>>, <<>>)

----------------------------------------------------------------------------
(* Script::parse. parse_commands gives one command per non-empty line, with *)
(* its line number; cut_funcs moves the commands of the function blocks out *)
(* of that list.                                                            *)

Line(cmd, n) == [op |-> cmd.op, args |-> cmd.args, line |-> n]

\* the parameters of a FUNC line: the tokens after the name taken in pairs, a name
\* then its type; a later pair of the same name replaces the earlier one
RECURSIVE ParseParams(_, _)
ParseParams(tokens, parameters) ==
    IF Len(tokens) < 2 THEN [ok |-> TRUE, e |-> "none", parameters |-> parameters]
    ELSE LET t == from_name(Chars(tokens[2]))
         IN IF ~t.ok THEN [ok |-> FALSE, e |-> t.e, parameters |-> parameters]
            ELSE ParseParams(SubSeq(tokens, 3, Len(tokens)),
                    Append(SelectSeq(parameters, LAMBDA q : q.name # tokens[1]),
                           Param(tokens[1], t.t)))

\* the FUNC arm of cut_funcs: the function the line opens, or the error of the line
OpenFunc(command) ==
    IF Len(command.args) < 2 THEN [ok |-> FALSE, e |-> "panic", f |-> <<>>]
    ELSE LET result_type == from_name(Chars(command.args[1]))
             parameters == ParseParams(SubSeq(command.args, 3, Len(command.args)), <<>>)
         IN IF ~result_type.ok THEN [ok |-> FALSE, e |-> result_type.e, f |-> <<>>]
            ELSE IF ~parameters.ok THEN [ok |-> FALSE, e |-> parameters.e, f |-> <<>>]
            ELSE [ok |-> TRUE, e |-> "none",
                  f |-> << Function(command.args[2], result_type.t,
                                    parameters.parameters, <<>>) >>]

\* the loop of cut_funcs over commands.clone() (todo); index counts the commands
\* kept in the list so far, now_func is <<>> or the function being filled
RECURSIVE CutLoop(_, _)
CutLoop(todo, st) ==
    IF todo = <<>> \/ st.e # "none" THEN st
    ELSE LET command == Head(todo)
         IN IF st.now_func # <<>>
            THEN IF command.op = "FUNC_END"
                 THEN CutLoop(Tail(todo),
                         [st EXCEPT !.commands = RemoveIndex(@, st.index + 1),
                                    !.functions = Append(@, st.now_func[1]),
                                    !.now_func = <<>>])
                 ELSE CutLoop(Tail(todo),
                         [st EXCEPT !.commands = RemoveIndex(@, st.index + 1),
                                    !.now_func = << [st.now_func[1] EXCEPT
                                                       !.commands = Append(@, command)] >>])
            ELSE IF command.op = "FUNC"
                 THEN CutLoop(Tail(todo),
                         [st EXCEPT !.commands = RemoveIndex(@, st.index + 1),
                                    !.now_func = OpenFunc(command).f,
                                    !.e = OpenFunc(command).e])
                 ELSE CutLoop(Tail(todo), [st EXCEPT !.index = @ + 1])

cut_funcs(commands) ==
    CutLoop(commands, [commands |-> commands, functions |-> <<>>, now_func |-> <<>>,
                       index |-> 0, e |-> "none"])

\* the Script of a run that is under way: its function table
Loaded == [source |-> <<>>, parsed |-> TRUE, e |-> "none", commands |-> <<>>,
           functions |-> functions]

\* the lines scripts are written with
ParseLines ==
    { Cmd("FUNC", <<"null", "f">>), Cmd("FUNC", <<"int", "g", "a", "int">>),
      Cmd("FUNC", <<"zz", "h">>), Cmd("FUNC_END", <<>>),
      Cmd("WRITE", <<"args.0", "cout">>), Cmd("RETURN", <<>>) }

Sources ==
    UNION { { [i \in 1..n |-> Line(text[i], i)] : text \in [1..n -> ParseLines] }
            : n \in 0..MaxLines }

\* RunningScript::get_function: the first function of that name
get_function(name) ==
    The({ IF \E i \in 1..Len(fs) : fs[i].name = name
          THEN [ok |-> TRUE,
                f |-> fs[CHOOSE i \in 1..Len(fs) :
                            /\ fs[i].name = name
                            /\ \A j \in 1..(i - 1) : fs[j].name # name]]
          ELSE [ok |-> FALSE, f |-> NoFunction]
          : fs \in {functions} })

\* vocabularies of top-level lists: variable lifecycle and arithmetic
PoolVars ==
    { Cmd("INIT_VAR", <<"int", "x">>), Cmd("INIT_VAR", <<"string", "y">>),
      Cmd("INIT_VAR", <<"string", "x">>), Cmd("INIT_VAR", <<"wat", "x">>),
      Cmd("SET_VAR", <<"x", "5">>), Cmd("SET_VAR", <<"x", "9223372036854775807">>),
      Cmd("SET_VAR", <<"y", "hi">>),
      Cmd("SET_VAR", <<"x", "hi">>), Cmd("SET_VAR", <<"nope", "1">>),
      Cmd("ADD_INT", <<"x", "x">>), Cmd("ADD_INT", <<"x", "y">>),
      Cmd("ADD_INT", <<"y", "x">>), Cmd("ADD_INT", <<"x", "g">>),
      Cmd("TEMP_VAR", <<"int", "g", "-3">>),
      Cmd("COPY_VAR", <<"y", "x">>), Cmd("COPY_VAR", <<"x", "nope">>),
      Cmd("HAS_VAR", <<"x", "y">>), Cmd("HAS_VAR", <<"x", "nb">>),
      Cmd("MOVE_VAR", <<"x", "nope">>), Cmd("DROP_VAR", <<"x">>) }

\* temp variables, at top level and inside a function
PoolTemp ==
    { Cmd("TEMP_VAR", <<"string", "t", "hello">>), Cmd("TEMP_VAR", <<"string", "u", "hi">>),
      Cmd("TEMP_VAR", <<"int", "t", "zz">>),
      Cmd("WRITE", <<"t", "cout">>), Cmd("WRITE", <<"u", "cout">>),
      Cmd("WRITE", <<"t", "t">>), Cmd("WRITE", <<"cout", "cout">>),
      Cmd("INIT_VAR", <<"string", "t">>), Cmd("SET_VAR", <<"t", "zz">>),
      Cmd("DROP_VAR", <<"t">>), Cmd("USE_FUNC", <<"ftemp", "null">>),
      Cmd("RETURN", <<>>) }

\* function calls and the global/local routing of writes
PoolFunc ==
    { Cmd("INIT_VAR", <<"int", "g">>), Cmd("SET_VAR", <<"g", "5">>),
      Cmd("INIT_VAR", <<"int", "loc">>), Cmd("INIT_VAR", <<"bool", "b">>),
      Cmd("USE_FUNC", <<"setg", "null">>), Cmd("USE_FUNC", <<"shadow", "null", "g">>),
      Cmd("USE_FUNC", <<"shadow", "g", "g">>), Cmd("USE_FUNC", <<"decl", "g">>),
      Cmd("USE_FUNC", <<"outer", "null">>), Cmd("USE_FUNC", <<"early", "g">>),
      Cmd("USE_FUNC", <<"nofunc", "null">>), Cmd("USE_FUNC", <<"shadow", "null">>),
      Cmd("USE_FUNC", <<"shadow", "null", "nope">>),
      Cmd("USE_FUNC", <<"dropg", "null", "g">>) }

\* the bounded loop and the list iteration
PoolLoop ==
    { Cmd("TEMP_VAR", <<"int", "s", "1">>), Cmd("TEMP_VAR", <<"int", "s", "-3">>),
      Cmd("TEMP_VAR", <<"int", "e", "3">>),
      Cmd("TEMP_VAR", <<"int", "e", "1">>), Cmd("TEMP_VAR", <<"int", "g", "0">>),
      Cmd("FOR", <<"count", "s", "e">>), Cmd("FOR", <<"count", "e", "s">>),
      Cmd("FOR", <<"count", "s", "args">>), Cmd("FOR", <<"nofunc", "s", "e">>),
      Cmd("FOR_LIST", <<"each", "args">>), Cmd("FOR_LIST", <<"each", "s">>),
      Cmd("FOR_LIST", <<"nofunc", "args">>), Cmd("FOR_LIST", <<"each", "nope">>) }

\* the conditional and the predicate loop
PoolCond ==
    { Cmd("TEMP_VAR", <<"bool", "c", "true">>), Cmd("TEMP_VAR", <<"bool", "c", "false">>),
      Cmd("TEMP_VAR", <<"bool", "more", "true">>), Cmd("INIT_VAR", <<"int", "g">>),
      Cmd("IF", <<"c", "setg">>), Cmd("IF", <<"c", "nofunc">>), Cmd("IF", <<"g", "setg">>),
      Cmd("IF", <<"nope", "setg">>), Cmd("IF", <<"c", "shadow">>),
      Cmd("WHILE", <<"once">>), Cmd("WHILE", <<"twice">>), Cmd("WHILE", <<"nofunc">>),
      Cmd("WHILE", <<"decl">>), Cmd("WHILE", <<"stop">>),
      Cmd("USE_FUNC", <<"body", "null">>) }

\* a function of two parameters
PoolPair ==
    { Cmd("TEMP_VAR", <<"int", "p", "1">>), Cmd("TEMP_VAR", <<"int", "q", "2">>),
      Cmd("INIT_VAR", <<"int", "r">>),
      Cmd("USE_FUNC", <<"pair", "r", "p", "q">>), Cmd("USE_FUNC", <<"pair", "r", "q", "p">>),
      Cmd("USE_FUNC", <<"pair", "null", "p">>),
      Cmd("USE_FUNC", <<"pair", "r", "p", "q", "p">>) }

\* moves and dotted paths
PoolPath ==
    { Cmd("INIT_VAR", <<"int", "g">>), Cmd("SET_VAR", <<"g", "5">>),
      Cmd("TEMP_VAR", <<"string", "s", "h">>), Cmd("TO_CHARS", <<"s", "l">>),
      Cmd("MOVE_VAR", <<"g", "x">>), Cmd("MOVE_VAR", <<"nope", "g">>),
      Cmd("MOVE_VAR", <<"args.0", "x">>), Cmd("MOVE_VAR", <<"args", "x">>),
      Cmd("USE_FUNC", <<"mv", "null", "g">>), Cmd("USE_FUNC", <<"head", "null", "l">>),
      Cmd("COPY_VAR", <<"args.0", "x">>), Cmd("COPY_VAR", <<"args.1", "x">>),
      Cmd("COPY_VAR", <<"args.5", "x">>), Cmd("COPY_VAR", <<"g.0", "x">>) }

\* slices, sizes and conversions
PoolSub ==
    { Cmd("TEMP_VAR", <<"string", "s", "hello">>), Cmd("TEMP_VAR", <<"int", "i", "1">>),
      Cmd("TEMP_VAR", <<"int", "j", "3">>), Cmd("TEMP_VAR", <<"int", "i", "7">>),
      Cmd("SUB_STR", <<"s", "i", "j">>), Cmd("SUB_LIST", <<"args", "i", "j">>),
      Cmd("SUB_STR", <<"args", "i", "j">>), Cmd("SUB_LIST", <<"s", "i", "j">>),
      Cmd("STRING_SIZE", <<"s", "r">>), Cmd("LIST_SIZE", <<"args", "r">>),
      Cmd("LIST_SIZE", <<"s", "r">>), Cmd("LIST_SIZE", <<"nope", "r">>),
      Cmd("TO_CHARS", <<"s", "l">>), Cmd("TO_CHARS", <<"args", "l">>),
      Cmd("LIST_SIZE", <<"l", "r">>) }

\* reading and writing streams
PoolIo ==
    { Cmd("TEMP_VAR", <<"string", "s", "hello">>), Cmd("TEMP_VAR", <<"int", "i", "2">>),
      Cmd("TEMP_VAR", <<"int", "i", "-3">>), Cmd("TEMP_VAR", <<"int", "i", "70000">>),
      Cmd("TEMP_VAR", <<"int", "i", "1073741824">>),
      Cmd("TEMP_VAR", <<"int", "i", "9223372036854775807">>),
      Cmd("TEMP_VAR", <<"char", "c", "104">>), Cmd("INIT_VAR", <<"list[char]", "l">>),
      Cmd("INIT_VAR", <<"string", "v">>), Cmd("TO_CHARS", <<"s", "l">>),
      Cmd("WRITE", <<"s", "cout">>), Cmd("WRITE", <<"c", "cout">>),
      Cmd("WRITE", <<"l", "cout">>), Cmd("WRITE", <<"i", "cout">>),
      Cmd("WRITE", <<"s", "cin">>),
      Cmd("READ", <<"s", "i", "cin">>), Cmd("READ", <<"v", "i", "cin">>),
      Cmd("READ", <<"l", "i", "cin">>), Cmd("READ", <<"i", "i", "cin">>),
      Cmd("READ", <<"s", "i", "cout">>), Cmd("READ", <<"s", "s", "cin">>),
      Cmd("READ_ALL", <<"s", "cin">>), Cmd("READ_ALL", <<"i", "cin">>),
      Cmd("READ_ALL", <<"s", "cout">>), Cmd("SLEEP", <<"i">>), Cmd("SLEEP", <<"s">>),
      Cmd("SLEEP", <<"nope">>) }

\* optionals
PoolOpt ==
    { Cmd("PACK_OPTIONAL", <<"args", "o">>), Cmd("PACK_OPTIONAL", <<"args.0", "o">>),
      Cmd("PACK_OPTIONAL", <<"o", "o">>), Cmd("PACK_OPTIONAL", <<"nope", "o">>),
      Cmd("UNPACK_OPTIONAL", <<"o", "r">>), Cmd("UNPACK_OPTIONAL", <<"o", "o">>),
      Cmd("UNPACK_OPTIONAL", <<"args", "r">>),
      Cmd("HAS_OPTIONAL", <<"o", "r">>), Cmd("HAS_OPTIONAL", <<"cout", "r">>),
      Cmd("NONE_OPTIONAL", <<"o">>), Cmd("NONE_OPTIONAL", <<"args">>),
      Cmd("INIT_VAR", <<"optional[int]", "o">>), Cmd("INIT_VAR", <<"int", "r">>) }

\* type texts: map types with the descriptor each one names, and other forms
MapForms ==
    { [name |-> "map[int,string]", t |-> TMap(TInteger, TString)],
      [name |-> "map[i,i]", t |-> TMap(TInteger, TInteger)],
      [name |-> "map[int,map[string,int]]",
       t |-> TMap(TInteger, TMap(TString, TInteger))],
      [name |-> "map[list[int],string]", t |-> TMap(TList(TInteger), TString)],
      [name |-> "map[string,int]", t |-> TMap(TString, TInteger)] }
PoolTypes ==
    { Cmd("INIT_VAR", <<f.name, "m">>) : f \in MapForms }
    \cup { Cmd("INIT_VAR", <<"list[int]", "m">>), Cmd("INIT_VAR", <<"list[", "m">>),
           Cmd("INIT_VAR", <<"optional[int]", "m">>), Cmd("INIT_VAR", <<"optional[", "m">>),
           Cmd("INIT_VAR", <<"map[", "m">>), Cmd("INIT_VAR", <<"zz", "m">>),
           Cmd("MAP_SIZE", <<"m", "n">>), Cmd("LIST_SIZE", <<"m", "n">>),
           Cmd("DROP_VAR", <<"m">>) }

\* elements by index
PoolGet ==
    { Cmd("TEMP_VAR", <<"int", "i", "0">>), Cmd("TEMP_VAR", <<"int", "i", "1">>),
      Cmd("TEMP_VAR", <<"int", "i", "2">>), Cmd("TEMP_VAR", <<"int", "i", "-3">>),
      Cmd("INIT_VAR", <<"char", "r">>),
      Cmd("GET_ITEM", <<"args", "i", "r">>), Cmd("GET_SYMBOL", <<"args.0", "i", "r">>),
      Cmd("GET_ITEM", <<"args.0", "i", "r">>), Cmd("GET_SYMBOL", <<"args", "i", "r">>),
      Cmd("GET_ITEM", <<"args", "args", "r">>), Cmd("GET_VALUE", <<"args", "i", "r">>),
      Cmd("GET_ITEM", <<"nope", "i", "r">>) }

\* tasks
PoolThread ==
    { Cmd("INIT_VAR", <<"int", "n">>), Cmd("SET_VAR", <<"n", "1">>),
      Cmd("SET_VAR", <<"n", "9223372036854775807">>),
      Cmd("NEW_THREAD", <<"bump">>), Cmd("NEW_THREAD", <<"broken">>),
      Cmd("NEW_THREAD", <<"nofunc">>), Cmd("NEW_THREAD", <<"pair">>),
      Cmd("ADD_INT", <<"n", "n">>),
      Cmd("SLEEP", <<"n">>), Cmd("NEW_THREAD", <<"ftemp">>) }

\* two predicate loops at once
PoolWhile ==
    { Cmd("WHILE", <<"once">>), Cmd("NEW_THREAD", <<"body">>) }

\* streams and equality
PoolEq ==
    { Cmd("OPEN_FILE_IN", <<"args.0", "s1">>), Cmd("OPEN_FILE_IN", <<"args.0", "s2">>),
      Cmd("OPEN_FILE_IN", <<"args.1", "s1">>), Cmd("OPEN_FILE_IN", <<"args", "s1">>),
      Cmd("OPEN_FILE_IN", <<"nope", "s1">>),
      Cmd("INIT_VAR", <<"in_stream", "s1">>), Cmd("INIT_VAR", <<"in_stream", "s2">>),
      Cmd("INIT_VAR", <<"out_stream", "o1">>), Cmd("OPEN_FILE_OUT", <<"args.0", "o1">>),
      Cmd("OPEN_FILE_OUT", <<"args.1", "o1">>), Cmd("WRITE", <<"args.0", "o1">>),
      Cmd("COPY_VAR", <<"s1", "s2">>),
      Cmd("EQUALS", <<"s1", "s2", "r">>), Cmd("EQUALS", <<"s1", "cin", "r">>),
      Cmd("EQUALS", <<"cout", "cin", "r">>), Cmd("EQUALS", <<"cout", "cout", "r">>),
      Cmd("EQUALS", <<"args.0", "args.1", "r">>), Cmd("EQUALS", <<"s1", "nope", "r">>),
      Cmd("EQUALS", <<"nope", "s1", "r">>) }

\* conversions and the joining of texts and floats
PoolConv ==
    { Cmd("TEMP_VAR", <<"string", "s", "1.5">>), Cmd("TEMP_VAR", <<"string", "s", "42">>),
      Cmd("TEMP_VAR", <<"string", "s">>), Cmd("TEMP_VAR", <<"string", "s", "inf">>),
      Cmd("INIT_VAR", <<"float", "f">>), Cmd("INIT_VAR", <<"int", "n">>),
      Cmd("INIT_VAR", <<"bool", "b">>), Cmd("INIT_VAR", <<"char", "c">>),
      Cmd("TO_FLOAT", <<"s", "f">>), Cmd("TO_INTEGER", <<"s", "n">>),
      Cmd("TO_BOOL", <<"s", "b">>), Cmd("TO_BOOL", <<"f", "b">>),
      Cmd("TO_CHAR", <<"s", "c">>), Cmd("TO_CHAR", <<"args", "c">>),
      Cmd("ADD_FLOAT", <<"f", "f">>), Cmd("ADD_FLOAT", <<"f", "s">>),
      Cmd("ADD_STR", <<"s", "s">>), Cmd("ADD_STR", <<"s", "c">>),
      Cmd("ADD_STR", <<"s", "f">>), Cmd("TO_STRING", <<"f", "s">>) }

\* comparisons, connectives and random numbers
PoolLogic ==
    { Cmd("TEMP_VAR", <<"int", "i", "1">>), Cmd("TEMP_VAR", <<"int", "j", "3">>),
      Cmd("TEMP_VAR", <<"float", "j", "1.5">>), Cmd("TEMP_VAR", <<"bool", "p", "true">>),
      Cmd("TEMP_VAR", <<"char", "j", "1">>),
      Cmd("INIT_VAR", <<"bool", "b">>), Cmd("INIT_VAR", <<"int", "r">>),
      Cmd("MORE", <<"i", "j", "b">>), Cmd("LESS", <<"i", "j", "b">>),
      Cmd("MORE", <<"j", "i", "b">>), Cmd("LESS", <<"i", "p", "b">>),
      Cmd("AND", <<"p", "p", "b">>), Cmd("OR", <<"b", "p", "b">>),
      Cmd("OR", <<"p", "i", "b">>), Cmd("NOT", <<"p", "b">>), Cmd("NOT", <<"i", "b">>),
      Cmd("RANDOM", <<"i", "j", "r">>), Cmd("RANDOM", <<"j", "i", "r">>),
      Cmd("RANDOM", <<"i", "p", "r">>) }

\* containment, and the iteration over a string
PoolHas ==
    { Cmd("TEMP_VAR", <<"string", "s", "hello">>), Cmd("TEMP_VAR", <<"string", "u", "hi">>),
      Cmd("INIT_VAR", <<"bool", "b">>),
      Cmd("HAS_STR", <<"s", "u", "b">>), Cmd("HAS_STR", <<"u", "u", "b">>),
      Cmd("HAS_STR", <<"s", "args", "b">>), Cmd("HAS_STR", <<"args", "u", "b">>),
      Cmd("HAS_ITEM", <<"args", "u", "b">>), Cmd("HAS_ITEM", <<"args", "s", "b">>),
      Cmd("HAS_ITEM", <<"s", "u", "b">>), Cmd("HAS_ITEM", <<"args", "nope", "b">>),
      Cmd("FOR_STRING", <<"each", "u">>), Cmd("FOR_STRING", <<"each", "args">>),
      Cmd("FOR_STRING", <<"nofunc", "u">>) }

\* the process arguments behind the standard variable `args`
ArgLists == { <<>>, <<"hi">>, <<"hi", "zz">>, <<"zz", "hi", "zz">> }

Scenarios ==
    {[pool |-> PoolVars, args |-> <<"hi">>], [pool |-> PoolTemp, args |-> <<"hi">>],
     [pool |-> PoolFunc, args |-> <<"hi">>], [pool |-> PoolCond, args |-> <<"hi">>],
     [pool |-> PoolPair, args |-> <<"hi">>], [pool |-> PoolEq, args |-> <<"hi", "zz">>],
     [pool |-> PoolThread, args |-> <<"hi">>],
     [pool |-> PoolSub, args |-> <<"hi", "zz", "hi">>],
     [pool |-> PoolIo, args |-> <<"hi">>],
     [pool |-> PoolPath, args |-> <<"hi", "zz">>],
     [pool |-> PoolOpt, args |-> <<"hi">>],
     [pool |-> PoolTypes, args |-> <<"hi">>],
     [pool |-> PoolGet, args |-> <<"hi", "zz">>],
     [pool |-> PoolWhile, args |-> <<"hi">>],
     [pool |-> PoolConv, args |-> <<"hi">>],
     [pool |-> PoolLogic, args |-> <<"hi">>],
     [pool |-> PoolHas, args |-> <<"hi", "zz">>]}
    \cup {[pool |-> PoolLoop, args |-> a] : a \in ArgLists}

----------------------------------------------------------------------------
(* Function::execute as a frame on the task's stack.                       *)
(*   phase "exec": at the head of the loop over the commands               *)
(*   phase "mid": inside Command::execute, between two statements that     *)
(*   lock the script; held is what the statements that read returned       *)
(*   phase "wait": inside Command::execute of a calling command, after its *)
(*   operands are read                                                     *)
(*   phase "drop": the command returned Ok, the drop pass is next          *)
(*   phase "block": inside thread::sleep or a method of a stream; guard is *)
(*   whether the task holds the script lock meanwhile                      *)
(*   phase "poisoned": in the unwrap of a script.lock() that gave an Err   *)
(* guard of a task that panicked: the panic arose while the guard of the   *)
(* script's mutex was alive, which poisons the mutex.                      *)
(* loop is the calling command in progress: the function, the result name, *)
(* the argument vectors still to be passed (pending); src (the operands as *)
(* read by the command) and invoked (the argument vectors passed so far)   *)
(* are history, as is tlog: for each entry of temp_vars the number of      *)
(* commands of this frame completed since (after), and how many of them    *)
(* were not TEMP_VAR (plain), both counted up to 2.                        *)
(* dropped counts the names of temp_vars the drop pass in progress has     *)
(* been through.                                                           *)

Tasks == 0..MaxThreads

NoLoop == [func |-> "", result |-> "null", pending |-> <<>>, src |-> <<>>, invoked |-> <<>>]

Frame(fn, is_global, result_var, locals) ==
    [fn |-> fn, is_global |-> is_global, result_var |-> result_var, locals |-> locals,
     temp_vars |-> <<>>, pc |-> 1, phase |-> "exec", cmd |-> NoCmd, loop |-> NoLoop,
     held |-> <<>>, guard |-> FALSE, tlog |-> <<>>, dropped |-> 0]

Top(t) == stacks[t][Len(stacks[t])]
Depth(t) == Len(stacks[t])
SetTop(t, f) == [stacks EXCEPT ![t][Len(stacks[t])] = f]

Body(f) == get_function(f.fn).f.commands

\* the commands the loop of Function::execute may meet next
NextCmds(f) ==
    IF f.fn = "main" THEN (IF f.pc <= MaxMain THEN main_pool ELSE {})
    ELSE The({ IF f.pc <= Len(body) THEN {body[f.pc]} ELSE {} : body \in {Body(f)} })

\* the loop over the commands is exhausted (a top-level list may end anywhere)
AtEnd(f) == IF f.fn = "main" THEN TRUE ELSE f.pc > Len(Body(f))

Min2(n) == IF n >= 2 THEN 2 ELSE n
Aged(tlog, plain) ==
    [i \in 1..Len(tlog) |->
        [after |-> Min2(tlog[i].after + 1),
         plain |-> IF plain THEN Min2(tlog[i].plain + 1) ELSE tlog[i].plain]]

Running(t) == status[t] = "running" /\ stacks[t] # <<>>

\* no other task holds a guard of the script's mutex: script.lock() returns
LockFree(t) == \A u \in Tasks \ {t} : Running(u) => ~Top(u).guard
\* a task panicked while it held a guard: every later script.lock() gives an Err
Poisoned == \E u \in Tasks : status[u] = "panicked" /\ stacks[u] # <<>> /\ Top(u).guard
\* script.lock().unwrap() goes through
CanLock(t) == LockFree(t) /\ ~Poisoned

\* RunningScript::run: the top-level list runs as the function main, on the globals
MainFrame == Frame("main", TRUE, "null", Put(EmptyTable, "result", empty_var(TNull)))

AbortOutermost(t, e, cmd) ==
    /\ status' = [status EXCEPT ![t] = "failed"]
    /\ error' = [error EXCEPT ![t] = [e |-> e, cmd |-> stacks[t][1].cmd]]
AbortRun(t, e, cmd) ==
    /\ status' = [status EXCEPT ![t] = "failed", ![0] = "failed"]
    /\ error' = [error EXCEPT ![t] = [e |-> e, cmd |-> cmd], ![0] = [e |-> e, cmd |-> cmd]]
Abort(t, e, cmd) ==
    /\ status' = [status EXCEPT ![t] = "failed"]
    /\ error' = [error EXCEPT ![t] = [e |-> e, cmd |-> cmd]]

Init ==
    \E sc \in Scenarios :
        /\ main_pool = sc.pool
        /\ script = Loaded
        /\ variables =
              Put(Put(Put(EmptyTable,
                  "args", from_list([i \in 1..Len(sc.args) |-> from_str(Chars(sc.args[i]))],
                                    TString)),
                  "cout", from_out_stream(1)),
                  "cin", from_in_stream(2))
        /\ stacks = [t \in Tasks |-> IF t = 0 THEN << MainFrame >> ELSE <<>>]
        /\ status = [t \in Tasks |-> IF t = 0 THEN "running" ELSE "idle"]
        /\ error = [t \in Tasks |-> [e |-> "none", cmd |-> NoCmd]]
        /\ streams = [h \in {1, 2} |-> IF h = 1 THEN <<>> ELSE StdinBytes]

\* `for index in start_index..=end_index`: the argument vectors of FOR, in order
ForArgsExclusive(start_index, end_index) ==
    [i \in 1..(ToInt(end_index) - ToInt(start_index)) |->
        << from_int(Isize(ToInt(start_index) + i - 1)) >>]
ForArgs(start_index, end_index) ==
    [i \in 1..(ToInt(end_index) - ToInt(start_index) + 1) |->
        << from_int(Isize(ToInt(start_index) + i - 1)) >>]

\* `for i in list_var`: the argument vectors of FOR_LIST, in order
ForListArgsBackwards(list_var) ==
    [i \in 1..Len(list_var) |-> << list_var[Len(list_var) + 1 - i] >>]
ForListArgs(list_var) == [i \in 1..Len(list_var) |-> << list_var[i] >>]

\* `for (k, v) in map_var`: the argument vectors of FOR_MAP, in the order of the map
ForMapArgs(map_var) == [i \in 1..Len(map_var) |-> map_var[i].items]

\* `for c in string_var.as_bytes()`: the argument vectors of FOR_STRING
ForStringArgs(string_var) == [i \in 1..Len(string_var) |-> << from_char(string_var[i]) >>]

\* `if bool_var { func.execute(..) }`: the argument vectors of IF
IfArgsAlways(bool_var) == << <<>> >>
IfArgs(bool_var) == IF bool_var THEN << <<>> >> ELSE <<>>

\* what the statements of USE_FUNC that read its arguments returned, in order: the
\* values, or the first error
RECURSIVE GetArgs(_)
GetArgs(reads) ==
    IF reads = <<>> THEN [ok |-> TRUE, e |-> "none", vs |-> <<>>]
    ELSE IF ~Head(reads).ok THEN [ok |-> FALSE, e |-> Head(reads).e, vs |-> <<>>]
    ELSE The({ IF ~rest.ok THEN rest
               ELSE [ok |-> TRUE, e |-> "none", vs |-> << Head(reads).v >> \o rest.vs]
               : rest \in {GetArgs(Tail(reads))} })

CallOk(func, result, pending, src) ==
    [ok |-> TRUE, e |-> "none",
     loop |-> [func |-> func, result |-> result, pending |-> pending, src |-> src,
               invoked |-> <<>>]]
CallErr(e) == [ok |-> FALSE, e |-> e, loop |-> NoLoop]

\* the arms of Command::execute that call a function, up to the first func.execute:
\* the calls the arm goes on to make, given what its statements that read returned
ResolveCall(cmd, held) ==
    CASE cmd.op = "USE_FUNC" ->
            IF ~held[1].ok THEN CallErr(held[1].e)
            ELSE The({ IF ~args.ok THEN CallErr(args.e)
                       ELSE CallOk(cmd.args[1], cmd.args[2], << args.vs >>, args.vs)
                       : args \in {GetArgs(Tail(held))} })
      [] cmd.op = "FOR" ->
            The({ IF ~start_var.ok THEN CallErr(start_var.e)
                  ELSE IF ~as_int(start_var.v).ok THEN CallErr("TypeMismatchError")
                  ELSE IF ~end_var.ok THEN CallErr(end_var.e)
                  ELSE IF ~as_int(end_var.v).ok THEN CallErr("TypeMismatchError")
                  ELSE IF ~held[3].ok THEN CallErr(held[3].e)
                  ELSE CallOk(cmd.args[1], "null",
                              ForArgs(as_int(start_var.v).n, as_int(end_var.v).n),
                              << start_var.v, end_var.v >>)
                  : start_var \in {held[1]}, end_var \in {held[2]} })
      [] cmd.op = "FOR_LIST" ->
            The({ IF ~list_var.ok THEN CallErr(list_var.e)
                  ELSE IF ~as_list(list_var.v).ok THEN CallErr("TypeMismatchError")
                  ELSE IF ~held[2].ok THEN CallErr(held[2].e)
                  ELSE CallOk(cmd.args[1], "null", ForListArgs(as_list(list_var.v).s),
                              << list_var.v >>)
                  : list_var \in {held[1]} })
      [] cmd.op = "FOR_MAP" ->
            The({ IF ~map_var.ok THEN CallErr(map_var.e)
                  ELSE IF ~as_map(map_var.v).ok THEN CallErr("TypeMismatchError")
                  ELSE IF ~held[2].ok THEN CallErr(held[2].e)
                  ELSE CallOk(cmd.args[1], "null", ForMapArgs(as_map(map_var.v).s),
                              << map_var.v >>)
                  : map_var \in {held[1]} })
      [] cmd.op = "FOR_STRING" ->
            The({ IF ~string_var.ok THEN CallErr(string_var.e)
                  ELSE IF ~as_str(string_var.v).ok THEN CallErr("TypeMismatchError")
                  ELSE IF ~held[2].ok THEN CallErr(held[2].e)
                  ELSE CallOk(cmd.args[1], "null", ForStringArgs(as_str(string_var.v).s),
                              << string_var.v >>)
                  : string_var \in {held[1]} })
      [] cmd.op = "IF" ->
            The({ IF ~held[1].ok THEN CallErr(held[1].e)
                  ELSE IF ~bool_var.ok THEN CallErr(bool_var.e)
                  ELSE IF ~as_bool(bool_var.v).ok THEN CallErr("TypeMismatchError")
                  ELSE CallOk(cmd.args[2], "null", IfArgs(as_bool(bool_var.v).n = 1),
                              << bool_var.v >>)
                  : bool_var \in {held[2]} })
      [] cmd.op = "WHILE" ->
            IF ~held[1].ok THEN CallErr(held[1].e)
            ELSE CallOk(cmd.args[1], "while", << <<>> >>, <<>>)

\* WHILE, once the function is found: set_var("while", true, ..) in the caller's tables
WhileInit(cmd) == SetVar("while", from_bool(TRUE), FALSE)

\* the outcome of such an arm before its first func.execute
ExecCall(cmd, held, global, L, G, tv, out) ==
    The({ IF ~r.ok THEN Fail(r.e, L, G, tv, out)
          ELSE IF cmd.op = "WHILE" THEN Stored(WhileInit(cmd), L, G, tv, out)
          ELSE Done(L, G, tv, out)
          : r \in {ResolveCall(cmd, held)} })

\* what a statement that reads returns: get_var of the argument, or get_function
ReadResult(rd, cmd, L, G) ==
    IF rd.fn
    THEN (IF get_function(cmd.args[rd.arg]).ok THEN VOk(from_null)
          ELSE VErr("FunctionUnknownError"))
    ELSE get_var(cmd.args[rd.arg], L, G)

\* the command task t is at, with what it has read: one the loop of Function::execute
\* may meet next, or the one it is in the middle of
Cur(t) ==
    IF Top(t).phase = "exec"
    THEN {[cmd |-> c, held |-> <<>>] : c \in NextCmds(Top(t))}
    ELSE IF Top(t).phase = "mid" THEN {[cmd |-> Top(t).cmd, held |-> Top(t).held]}
    ELSE {}

\* what the arm has read once its next statement that reads, if one is left, has run
HeldNext(t, c) ==
    The({ IF Len(c.held) < Len(reads)
          THEN Append(c.held, ReadResult(reads[Len(c.held) + 1], c.cmd, Top(t).locals, variables))
          ELSE c.held
          : reads \in {Reads(c.cmd)} })

\* held, with Pending for each statement that reads and has not run
Padded(cmd, held) == Pad(held, Len(Reads(cmd)))

\* Command::execute returns or panics (outcome o), or is about to make its calls
Finish(t, cmd, o, held) ==
    \E f \in {Top(t)} :
    \E g \in {[f EXCEPT !.locals = o.locals, !.temp_vars = o.temp_vars, !.cmd = cmd,
                        !.loop = NoLoop, !.held = held, !.phase = "exec"]} :
       /\ variables' = o.globals
       /\ streams' = o.out
       /\ IF o.e = "abort"
          THEN /\ stacks' = SetTop(t, g)
               /\ status' = [u \in Tasks |->
                                IF status[u] = "running" THEN "aborted" ELSE status[u]]
               /\ UNCHANGED error
          ELSE IF o.e = "panic"
          THEN /\ stacks' = SetTop(t, [g EXCEPT !.guard = o.lock])
               /\ status' = [status EXCEPT ![t] = "panicked"]
               /\ UNCHANGED error
          ELSE IF ~o.ok
          THEN /\ stacks' = SetTop(t, g)
               /\ Abort(t, o.e, cmd)
          ELSE /\ UNCHANGED <<status, error>>
               /\ stacks' = SetTop(t,
                     IF cmd.op = "TEMP_VAR"
                     THEN [g EXCEPT !.pc = f.pc + 1,
                                    !.tlog = Append(Aged(f.tlog, FALSE),
                                                    [after |-> 0, plain |-> 0])]
                     ELSE IF cmd.op \in CallOps
                     THEN [g EXCEPT !.phase = "wait", !.loop = ResolveCall(cmd, held).loop]
                     ELSE IF cmd.op \in BlockingOps /\ Len(held) = Len(Reads(cmd))
                     THEN [g EXCEPT !.phase = "block", !.guard = GuardAlive(cmd.op)]
                     ELSE [g EXCEPT !.phase = "drop"])

\* one statement of the arm that locks the script, with the statements after it that
\* do not: a statement that reads (h is held with what it returned), or (all of them
\* done) one that stores; outcomes are those the arm may have with h
Step(t, c, h, outcomes) ==
    \E f \in {Top(t)} :
    \E arm \in outcomes :
    \E o \in {Commit(arm, f.is_global)} :
       IF Len(c.held) < Len(h)
       THEN /\ CanLock(t)
            /\ IF o.e = "pending" \/ o.lock
               THEN /\ stacks' = SetTop(t, [f EXCEPT !.cmd = c.cmd, !.loop = NoLoop,
                                                     !.held = h, !.phase = "mid"])
                    /\ UNCHANGED <<variables, streams, status, error>>
               ELSE Finish(t, c.cmd, o, h)
       ELSE /\ c.held = <<>> \/ o.lock
            /\ o.lock => CanLock(t)
            /\ IF o.more
               THEN /\ stacks' = SetTop(t, [f EXCEPT !.cmd = c.cmd, !.loop = NoLoop,
                                                     !.locals = o.locals,
                                                     !.temp_vars = o.temp_vars,
                                                     !.held = Append(h, VOk(from_null)),
                                                     !.phase = "mid"])
                    /\ variables' = o.globals
                    /\ streams' = o.out
                    /\ UNCHANGED <<status, error>>
               ELSE Finish(t, c.cmd, o, h)

\* Function::execute, loop body: command.execute for a command that calls nothing,
\* one statement that locks the script at a time, up to the `?` (an error ends the
\* run) or to the `continue` of TEMP_VAR
ExecCommand(t) ==
    /\ Running(t)
    /\ \E c \in Cur(t) :
          /\ c.cmd.op \in SimpleOps
          /\ \E h \in {HeldNext(t, c)} :
                Step(t, c, h, ExecSimple(c.cmd, Padded(c.cmd, h), Top(t).is_global,
                                         Top(t).locals, variables, Top(t).temp_vars, streams))
    /\ UNCHANGED <<main_pool, script>>

\* SLEEP, WRITE, READ, READ_ALL up to the call of thread::sleep or of the stream: the
\* operands are read, each under a lock of its own
Block(t) ==
    /\ Running(t)
    /\ \E c \in Cur(t) :
          /\ c.cmd.op \in BlockingOps
          /\ Len(c.held) < Len(Reads(c.cmd))
          /\ \E h \in {HeldNext(t, c)} :
                Step(t, c, h, ExecBlocking(c.cmd, Padded(c.cmd, h), Top(t).is_global,
                                           Top(t).locals, variables, Top(t).temp_vars,
                                           streams))
    /\ UNCHANGED <<main_pool, script>>

\* the call returns: WRITE and SLEEP are at their end, READ and READ_ALL have the
\* bytes and go on to store them
Unblock(t) ==
    /\ Running(t)
    /\ Top(t).phase = "block"
    /\ \E f \in {Top(t)} :
       \E r \in {StreamCall(f.cmd, f.held, streams)} :
          /\ streams' = r.out
          /\ stacks' = SetTop(t, [f EXCEPT !.held = Append(@, VOk(from_str(r.got))),
                                           !.guard = FALSE,
                                           !.phase = IF f.cmd.op \in {"READ", "READ_ALL"}
                                                     THEN "mid" ELSE "drop"])
    /\ UNCHANGED <<variables, status, error, main_pool, script>>

\* READ and READ_ALL after the call: the script is locked again and the value made of
\* the bytes is stored
StoreRead(t) ==
    /\ Running(t)
    /\ \E c \in Cur(t) :
          /\ c.cmd.op \in {"READ", "READ_ALL"}
          /\ Len(c.held) > Len(Reads(c.cmd))
          /\ Step(t, c, c.held, ExecBlocking(c.cmd, c.held, Top(t).is_global, Top(t).locals,
                                             variables, Top(t).temp_vars, streams))
    /\ UNCHANGED <<main_pool, script>>

\* the drop pass, one name of temp_vars at a time: the script is locked and drop_var
\* of the name runs, its error ignored; temp_vars stays. After the last name the loop
\* goes on to the next command
DropPass(t) ==
    /\ Running(t)
    /\ Top(t).phase = "drop"
    /\ Top(t).temp_vars # <<>> => CanLock(t)
    /\ \E f \in {Top(t)} :
       \E r \in {IF f.temp_vars = <<>> THEN SOk(f.locals, variables)
                 ELSE drop_var(f.temp_vars[f.dropped + 1], f.locals, variables)} :
          /\ variables' = r.globals
          /\ stacks' = SetTop(t, IF f.dropped + 1 < Len(f.temp_vars)
                                 THEN [f EXCEPT !.locals = r.locals, !.dropped = @ + 1]
                                 ELSE [f EXCEPT !.locals = r.locals, !.pc = f.pc + 1,
                                                !.phase = "exec", !.held = <<>>,
                                                !.dropped = 0,
                                                !.tlog = Aged(f.tlog, TRUE)])
    /\ UNCHANGED <<status, error, streams, main_pool, script>>

\* Command::execute of a calling command, up to its first func.execute: the operands
\* and the function are read, each under a lock of its own
BeginCall(t) ==
    /\ Running(t)
    /\ \E c \in Cur(t) :
          /\ c.cmd.op \in CallOps
          /\ \E h \in {HeldNext(t, c)} :
                Step(t, c, h, {ExecCall(c.cmd, Padded(c.cmd, h), Top(t).is_global,
                                        Top(t).locals, variables, Top(t).temp_vars, streams)})
    /\ UNCHANGED <<main_pool, script>>

\* the orders in which a HashMap may yield the declared parameters
ParamOrders(func) ==
    {o \in [1..Len(func.parameters) -> 1..Len(func.parameters)] :
        \A i, j \in 1..Len(func.parameters) : i # j => o[i] # o[j]}

\* the local table Function::execute starts with: the parameters bound to the
\* arguments in iteration order, then `result`
NewLocalsNoResult(func, args, order) ==
    [n \in {func.parameters[i].name : i \in 1..Len(func.parameters)} |->
        args[CHOOSE i \in 1..Len(func.parameters) : func.parameters[order[i]].name = n]]
NewLocals(func, args, order) ==
    Put([n \in {func.parameters[i].name : i \in 1..Len(func.parameters)} |->
            args[CHOOSE i \in 1..Len(func.parameters) : func.parameters[order[i]].name = n]],
        "result", empty_var(func.result_type))

\* func.execute(script, result, args, false): the callee's frame is set up
Invoke(t) ==
    /\ Running(t)
    /\ Top(t).phase = "wait"
    /\ Top(t).loop.pending # <<>>
    /\ Depth(t) < MaxDepth
    /\ \E f \in {Top(t)} :
       \E func \in {get_function(f.loop.func).f} :
       \E args \in {Head(f.loop.pending)} :
       \E caller \in {[f EXCEPT !.loop.pending = Tail(@), !.loop.invoked = Append(@, args)]} :
          IF Len(args) < Len(func.parameters)
          THEN /\ status' = [status EXCEPT ![t] = "panicked"]
               /\ stacks' = SetTop(t, caller)
          ELSE /\ \E order \in ParamOrders(func) :
                    stacks' = [stacks EXCEPT ![t] =
                        Append(SubSeq(@, 1, Len(@) - 1) \o << caller >>,
                               Frame(func.name, FALSE, f.loop.result,
                                     NewLocals(func, args, order)))]
               /\ UNCHANGED status
    /\ UNCHANGED <<variables, error, streams, main_pool, script>>

\* the calling command has made its last call: Command::execute returns Ok
EndCall(t) ==
    /\ Running(t)
    /\ Top(t).phase = "wait"
    /\ Top(t).loop.pending = <<>>
    /\ Top(t).cmd.op # "WHILE"
    /\ stacks' = SetTop(t, [Top(t) EXCEPT !.phase = "drop"])
    /\ UNCHANGED <<variables, status, error, streams, main_pool, script>>

\* WHILE after func.execute returned: `while` is read in the caller's tables; the loop
\* goes round again when it is true and breaks when it is false
WhileCheck(t) ==
    /\ Running(t)
    /\ CanLock(t)
    /\ Top(t).phase = "wait"
    /\ Top(t).loop.pending = <<>>
    /\ Top(t).cmd.op = "WHILE"
    /\ \E f \in {Top(t)} :
       \E condition \in {get_var("while", f.locals, variables)} :
          IF ~condition.ok
          THEN /\ Abort(t, condition.e, f.cmd)
               /\ UNCHANGED stacks
          ELSE IF ~as_bool(condition.v).ok
          THEN /\ Abort(t, "TypeMismatchError", f.cmd)
               /\ UNCHANGED stacks
          ELSE IF as_bool(condition.v).n = 1
          THEN /\ Len(f.loop.invoked) < MaxWhile
               /\ stacks' = SetTop(t, [f EXCEPT !.loop.pending = << <<>> >>])
               /\ UNCHANGED <<status, error>>
          ELSE /\ stacks' = SetTop(t, [f EXCEPT !.phase = "drop"])
               /\ UNCHANGED <<status, error>>
    /\ UNCHANGED <<variables, streams, main_pool, script>>

Pop(t) ==
    IF Depth(t) = 1
    THEN /\ stacks' = [stacks EXCEPT ![t] = <<>>]
         /\ status' = [status EXCEPT ![t] = "ok"]
    ELSE /\ stacks' = [stacks EXCEPT ![t] = SubSeq(@, 1, Len(@) - 1)]
         /\ UNCHANGED status

\* Function::execute after its last command: `result` is stored under result_var
\* with the callee's own local table, then the frame is gone; both unwraps are inside
\* the statement that locks the script
FinishFunction(t) ==
    /\ Running(t)
    /\ Top(t).phase = "exec"
    /\ AtEnd(Top(t))
    /\ \E f \in {Top(t)} :
          IF f.result_var = "null"
          THEN /\ Pop(t)
               /\ UNCHANGED variables
          ELSE /\ CanLock(t)
               /\ IF ~Has(f.locals, "result")
                  THEN /\ status' = [status EXCEPT ![t] = "panicked"]
                       /\ stacks' = SetTop(t, [f EXCEPT !.guard = TRUE])
                       /\ UNCHANGED variables
                  ELSE \E r \in {set_var(f.result_var, f.locals["result"], f.is_global,
                                          FALSE, f.locals, variables)} :
                          IF ~r.ok
                          THEN /\ status' = [status EXCEPT ![t] = "panicked"]
                               /\ stacks' = SetTop(t, [f EXCEPT !.guard = TRUE])
                               /\ UNCHANGED variables
                          ELSE /\ variables' = r.globals
                               /\ Pop(t)
    /\ UNCHANGED <<error, streams, main_pool, script>>

\* NEW_THREAD: the function is looked up (an unknown one fails the spawner), then
\* thread::spawn starts a task that runs it with no arguments and no result variable
\* against the same script; the spawner goes on at once
NewThread(t) ==
    /\ Running(t)
    /\ CanLock(t)
    /\ Top(t).phase = "exec"
    /\ \E cmd \in NextCmds(Top(t)) :
        /\ cmd.op = "NEW_THREAD"
        /\ \E f \in {Top(t)} :
           \E func \in {get_function(cmd.args[1])} :
           \E g \in {[f EXCEPT !.cmd = cmd, !.loop = NoLoop, !.held = <<>>]} :
              IF ~func.ok
              THEN /\ stacks' = SetTop(t, g)
                   /\ Abort(t, "FunctionUnknownError", cmd)
              ELSE \E u \in Tasks :
                      /\ status[u] = "idle"
                      /\ \A v \in Tasks : status[v] = "idle" => u <= v
                      /\ UNCHANGED error
                      /\ IF Len(func.f.parameters) > 0
                         THEN /\ stacks' = SetTop(t, [g EXCEPT !.phase = "drop"])
                              /\ status' = [status EXCEPT ![u] = "panicked"]
                         ELSE /\ stacks' = [SetTop(t, [g EXCEPT !.phase = "drop"])
                                               EXCEPT ![u] =
                                    << Frame(func.f.name, FALSE, "null",
                                             NewLocals(func.f, <<>>, <<>>)) >>]
                              /\ status' = [status EXCEPT ![u] = "running"]
    /\ UNCHANGED <<variables, streams, main_pool, script>>

\* a RETURN command ends Function::execute at once
ReturnCommandIgnored(t) ==
    /\ Running(t)
    /\ Top(t).phase = "exec"
    /\ \E cmd \in NextCmds(Top(t)) :
          /\ cmd.op = "RETURN"
          /\ stacks' = SetTop(t, [Top(t) EXCEPT !.pc = @ + 1, !.cmd = cmd])
    /\ UNCHANGED <<variables, status, error, streams, main_pool, script>>
ReturnCommand(t) ==
    /\ Running(t)
    /\ Top(t).phase = "exec"
    /\ \E cmd \in NextCmds(Top(t)) : cmd.op = "RETURN"
    /\ Pop(t)
    /\ UNCHANGED <<variables, error, streams, main_pool, script>>

\* the next statement of the command c is one that locks the script: one that reads,
\* or one that stores (INIT_VAR has from_name, which may fail, in a statement before it;
\* the arms of NoOps and RETURN have none)
Locks(c) ==
    \/ Len(c.held) < Len(Reads(c.cmd))
    \/ c.held # <<>>
    \/ c.cmd.op \in {"TEMP_VAR", "DROP_VAR"}
    \/ c.cmd.op = "INIT_VAR" /\ from_name(Chars(c.cmd.args[1])).ok

\* the next thing task t does is a statement that locks the script
NeedsLock(t) ==
    \/ \E c \in Cur(t) : Locks(c)
    \/ /\ Top(t).phase = "wait"
       /\ Top(t).loop.pending = <<>>
       /\ Top(t).cmd.op = "WHILE"
    \/ /\ Top(t).phase = "drop"
       /\ Top(t).temp_vars # <<>>
    \/ /\ Top(t).phase = "exec"
       /\ Top(t).fn # "main"
       /\ AtEnd(Top(t))
       /\ Top(t).result_var # "null"

\* script.lock().unwrap() on the poisoned mutex: the lock gives an Err(PoisonError) and
\* the unwrap panics
LockPoisoned(t) ==
    /\ Running(t)
    /\ LockFree(t)
    /\ Poisoned
    /\ NeedsLock(t)
    /\ status' = [status EXCEPT ![t] = "panicked"]
    /\ stacks' = SetTop(t, [Top(t) EXCEPT !.phase = "poisoned"])
    /\ UNCHANGED <<variables, error, streams, main_pool, script>>

\* the main thread is done (run returned, or it panicked): the process ends, and the
\* threads that are still running with it
Exit ==
    /\ status[0] # "running"
    /\ \E u \in Tasks : Running(u)
    /\ status' = [u \in Tasks |-> IF status[u] = "running" THEN "killed" ELSE status[u]]
    /\ UNCHANGED <<variables, stacks, error, streams, main_pool, script>>

Next ==
    \/ \E t \in Tasks :
        \/ ExecCommand(t)
        \/ DropPass(t)
        \/ BeginCall(t)
        \/ Invoke(t)
        \/ EndCall(t)
        \/ WhileCheck(t)
        \/ FinishFunction(t)
        \/ ReturnCommand(t)
        \/ NewThread(t)
        \/ Block(t)
        \/ Unblock(t)
        \/ StoreRead(t)
        \/ LockPoisoned(t)
    \/ Exit

Spec == Init /\ [][Next]_vars

\* Maps cannot be declared by a script (VarType::from_name accepts no map type name), so
\* a map reaches a run through the embedding API only: RunningScript::set_var with a
\* Variable::from_map value. The maps a host can build from the keys 1, 2 and the
\* values "hi", "zz", each listed in the iteration order of its own HashMap, and the
\* uninitialized map.
MapEntryLists ==
    {<<>>}
    \cup { << MapEntry(from_int(Isize(k)), from_str(Chars(v))) >> : k \in {1, 2}, v \in {"hi", "zz"} }
    \cup { << MapEntry(from_int(Isize(k)), from_str(Chars(v))),
              MapEntry(from_int(Isize(3 - k)), from_str(Chars(w))) >>
           : k \in {1, 2}, v \in {"hi", "zz"}, w \in {"hi", "zz"} }

EqInputs ==
    { Var(TMap(TInteger, TString), TRUE, <<>>, entries) : entries \in MapEntryLists }
    \cup { Var(TMap(TInteger, TString), FALSE, <<>>, <<>>) }

\* the script run against the host's maps a and b
PoolMaps ==
    { Cmd("EQUALS", <<"a", "b", "r">>), Cmd("EQUALS", <<"b", "a", "r">>),
      Cmd("EQUALS", <<"a", "a", "r">>), Cmd("COPY_VAR", <<"a", "b">>),
      Cmd("EQUALS", <<"a", "nope", "r">>), Cmd("MAP_SIZE", <<"a", "r">>),
      Cmd("COPY_VAR", <<"a.1", "r">>), Cmd("COPY_VAR", <<"args.0", "a.1">>),
      Cmd("DROP_VAR", <<"a.1">>),
      Cmd("TEMP_VAR", <<"int", "i", "1">>), Cmd("GET_VALUE", <<"a", "i", "r">>),
      Cmd("HAS_KEY", <<"a", "i", "r">>), Cmd("HAS_VALUE", <<"a", "args.0", "r">>),
      Cmd("HAS_ENTRY", <<"a", "i", "args.0", "r">>), Cmd("HAS_KEY", <<"args", "i", "r">>),
      Cmd("FOR_MAP", <<"kv", "a">>), Cmd("FOR_MAP", <<"nofunc", "a">>),
      Cmd("FOR_MAP", <<"kv", "args">>) }

InitEq ==
    \E a \in EqInputs, b \in EqInputs :
        /\ main_pool = PoolMaps
        /\ script = Loaded
        /\ variables =
              Put(Put(Put(Put(Put(EmptyTable,
                  "args", from_list(<< from_str(Chars("hi")) >>, TString)),
                  "cout", from_out_stream(1)),
                  "cin", from_in_stream(2)),
                  "a", a),
                  "b", b)
        /\ stacks = [t \in Tasks |-> IF t = 0 THEN << MainFrame >> ELSE <<>>]
        /\ status = [t \in Tasks |-> IF t = 0 THEN "running" ELSE "idle"]
        /\ error = [t \in Tasks |-> [e |-> "none", cmd |-> NoCmd]]
        /\ streams = [h \in {1, 2} |-> IF h = 1 THEN <<>> ELSE StdinBytes]

NextEq ==
    \E t \in Tasks :
        \/ ExecCommand(t)
        \/ DropPass(t)
        \/ FinishFunction(t)

\* a run against the host's maps: no task is spawned and no stream is used
NextHost ==
    \E t \in Tasks :
        \/ ExecCommand(t)
        \/ DropPass(t)
        \/ FinishFunction(t)
        \/ BeginCall(t)
        \/ Invoke(t)
        \/ EndCall(t)

SpecEq == InitEq /\ [][NextHost]_vars

----------------------------------------------------------------------------
(* Display and parsing: the host stores a value v, the script displays it   *)
(* (TO_STRING) and assigns texts to it (SET_VAR parses the text with the    *)
(* descriptor of v).                                                        *)

ScalarInputs ==
    { from_bool(TRUE), from_bool(FALSE),
      from_int(Isize(0)), from_int(Isize(5)), from_int(Isize(0 - 3)),
      from_int(<< 65535, 65535, 65535, 32767 >>), from_int(<< 0, 0, 0, 32768 >>),
      from_char(104), from_char(53), from_char(200),
      from_str(Chars("hi")), from_str(Chars("")), from_str(Chars("none")) }

RoundInputs ==
    ScalarInputs
    \cup { from_optional(<<x>>, get_type(x)) : x \in ScalarInputs }
    \cup { from_optional(<<>>, get_type(x)) : x \in ScalarInputs }

PoolRound ==
    { Cmd("TO_STRING", <<"v", "s">>), Cmd("TO_STRING", <<"s", "s">>) }
    \cup { Cmd("SET_VAR", <<"v", text>>)
           : text \in {"true", "false", "0", "5", "-3", "9223372036854775807", "h",
                       "hi", "none", "(true)", "(5)", "(hi)", "(h)", "[5]", "[hi]"} }

InitRound ==
    \E v \in RoundInputs :
        /\ main_pool = PoolRound
        /\ script = Loaded
        /\ variables =
              Put(Put(Put(Put(EmptyTable,
                  "args", from_list(<< from_str(Chars("hi")) >>, TString)),
                  "cout", from_out_stream(1)),
                  "cin", from_in_stream(2)),
                  "v", v)
        /\ stacks = [t \in Tasks |-> IF t = 0 THEN << MainFrame >> ELSE <<>>]
        /\ status = [t \in Tasks |-> IF t = 0 THEN "running" ELSE "idle"]
        /\ error = [t \in Tasks |-> [e |-> "none", cmd |-> NoCmd]]
        /\ streams = [h \in {1, 2} |-> IF h = 1 THEN <<>> ELSE StdinBytes]

SpecRound == InitRound /\ [][NextEq]_vars

----------------------------------------------------------------------------
(* Parsing: the lines of a script are handed to Script::parse.            *)

InitParse ==
    \E source \in Sources :
        /\ script = [source |-> source, parsed |-> FALSE, e |-> "none",
                     commands |-> <<>>, functions |-> <<>>]
        /\ main_pool = {}
        /\ variables = EmptyTable
        /\ stacks = [t \in Tasks |-> <<>>]
        /\ status = [t \in Tasks |-> "idle"]
        /\ error = [t \in Tasks |-> [e |-> "none", cmd |-> NoCmd]]
        /\ streams = [h \in {1, 2} |-> IF h = 1 THEN <<>> ELSE StdinBytes]

\* Script::parse after parse_commands: cut_funcs, then the Script or the error
Parse ==
    /\ ~script.parsed
    /\ \E st \in {cut_funcs(script.source)} :
          script' = IF st.e # "none"
                    THEN [script EXCEPT !.parsed = TRUE, !.e = st.e]
                    ELSE [script EXCEPT !.parsed = TRUE, !.commands = st.commands,
                                        !.functions = st.functions]
    /\ UNCHANGED <<variables, stacks, status, error, streams, main_pool>>

SpecParse == InitParse /\ [][Parse]_vars

----------------------------------------------------------------------------
(* Observation of single steps                                              *)

\* the innermost frame of task t after the step
TopNext(t) == stacks'[t][Len(stacks'[t])]

\* the step is the last one of command.execute, in the loop of Function::execute of the
\* innermost frame of t, of a command of `ops` that calls no function: it returns, or
\* it panics; TopNext(t).cmd is the command
Executes(t, ops) ==
    /\ Running(t)
    /\ Len(stacks'[t]) = Len(stacks[t])
    /\ \/ Top(t).phase = "exec" /\ NextCmds(Top(t)) # {}
       \/ Top(t).phase \in {"mid", "block"}
    /\ \/ status'[t] \in {"failed", "panicked"} /\ TopNext(t).phase = "exec"
       \/ status'[t] = "aborted" /\ stacks'[t] # stacks[t]
       \/ status'[t] = "running" /\ TopNext(t).phase = "drop"
       \/ status'[t] = "running" /\ TopNext(t).phase = "exec" /\ TopNext(t).pc # Top(t).pc
    /\ TopNext(t).cmd.op \in ops

\* what the statements of that command that read returned, in the order of the arm
Held(t) == TopNext(t).held

\* the step is the call of set_var of MOVE_VAR (the drop of the source is a statement
\* of its own, after it), or MOVE_VAR ends before that call
Moves(t) ==
    /\ Running(t)
    /\ Len(stacks'[t]) = Len(stacks[t])
    /\ \/ Top(t).phase = "exec" /\ NextCmds(Top(t)) # {}
       \/ Top(t).phase = "mid" /\ Len(Top(t).held) = 1
    /\ \/ status'[t] = "failed" /\ TopNext(t).phase = "exec"
       \/ status'[t] = "running" /\ TopNext(t).phase = "mid" /\ Len(Held(t)) = 2
    /\ TopNext(t).cmd.op = "MOVE_VAR"

\* the step in which a command of `ops` makes its call of set_var, or ends without it
Assigns(t, ops) ==
    \/ Executes(t, ops \ {"MOVE_VAR"})
    \/ "MOVE_VAR" \in ops /\ Moves(t)

\* what the i-th of them returned; for one the command did not get to, the variable it
\* names (the argument at position arg) as it is
Operand(t, i, arg) ==
    IF Len(Held(t)) >= i THEN Held(t)[i]
    ELSE get_var(TopNext(t).cmd.args[arg], Top(t).locals, variables)

\* what the reads of the ADD_INT that task t completes returned (operand, target)
AddOther(t) == Operand(t, 1, 2)
AddVar(t) == Operand(t, 2, 1)

\* the run of task t ends in this step with the ScriptError e
FailsWith(t, e) == status'[t] = "failed" /\ error'[t].e = e

\* the commands that assign to a variable, the name they assign to and the value, which
\* is made of what the command read
Assigning == {"SET_VAR", "COPY_VAR", "MOVE_VAR", "HAS_VAR", "ADD_INT"}
Target(cmd) == IF cmd.op \in {"SET_VAR", "ADD_INT"} THEN cmd.args[1] ELSE cmd.args[2]
Written(t, cmd) ==
    CASE cmd.op = "SET_VAR" ->
            parse_var(get_type(Held(t)[1].v), JoinSpace(Tail(cmd.args))).v
      [] cmd.op \in {"COPY_VAR", "MOVE_VAR"} -> Held(t)[1].v
      [] cmd.op = "HAS_VAR" -> from_bool(Held(t)[1].ok)
      [] cmd.op = "ADD_INT" ->
            from_int(WrappingAdd(as_int(AddVar(t).v).n, as_int(AddOther(t).v).n))

----------------------------------------------------------------------------
(* C1: TEMP_VAR t; I1; I2 with I1 not a TEMP_VAR: t resolves while I1       *)
(* executes and is unresolvable (UnknownVarError) when I2 executes.         *)
(* Stated on the frame at the head of its loop: a temp name whose TEMP_VAR  *)
(* was the last command resolves; a temp name followed by exactly one       *)
(* completed command, not a TEMP_VAR, does not resolve.                     *)
C1_TempVarLivesOneCommand ==
    \A t \in Tasks :
        (Running(t) /\ Top(t).phase = "exec" /\ NextCmds(Top(t)) # {}) =>
            \A i \in 1..Len(Top(t).temp_vars) :
                /\ Top(t).tlog[i].after = 0 =>
                      get_var(Top(t).temp_vars[i], Top(t).locals, variables).ok
                /\ (Top(t).tlog[i].after = 1 /\ Top(t).tlog[i].plain = 1) =>
                      get_var(Top(t).temp_vars[i], Top(t).locals, variables)
                          = VErr("UnknownVarError")

(* C2: INIT_VAR of a name that already resolves in the current scope fails  *)
(* with VarInitedError and the existing variable keeps its type and value.  *)
C2_InitVarTwiceFails ==
    [][\A t \in Tasks :
          (/\ Executes(t, {"INIT_VAR"})
           /\ get_var(TopNext(t).cmd.args[2], Top(t).locals, variables).ok)
          => /\ FailsWith(t, "VarInitedError")
             /\ get_var(TopNext(t).cmd.args[2], TopNext(t).locals, variables')
                   = get_var(TopNext(t).cmd.args[2], Top(t).locals, variables)]_vars

(* C3: assigning to an existing variable a value whose type descriptor      *)
(* differs from the variable's (COPY_VAR / MOVE_VAR from a variable of      *)
(* another type, the Bool result of HAS_VAR into a non-Bool variable) fails *)
(* with TypeMismatchError and leaves the target unchanged.                  *)
C3_AssignOtherTypeFails ==
    [][\A t \in Tasks :
          (/\ Assigns(t, {"COPY_VAR", "MOVE_VAR", "HAS_VAR"})
           /\ TopNext(t).cmd.op # "HAS_VAR" => Held(t)[1].ok
           /\ get_var(TopNext(t).cmd.args[2], Top(t).locals, variables).ok
           /\ get_type(get_var(TopNext(t).cmd.args[2], Top(t).locals, variables).v)
                 # get_type(Written(t, TopNext(t).cmd)))
          => /\ FailsWith(t, "TypeMismatchError")
             /\ get_var(TopNext(t).cmd.args[2], TopNext(t).locals, variables')
                   = get_var(TopNext(t).cmd.args[2], Top(t).locals, variables)]_vars

(* C4: an assigning command (SET_VAR, the target of COPY_VAR / MOVE_VAR,    *)
(* the result variable of HAS_VAR) whose target name does not exist fails   *)
(* with UnknownVarError and creates no variable of that name in the local   *)
(* or the global table.                                                     *)
C4_AssignUndeclaredFails ==
    [][\A t \in Tasks :
          (/\ Assigns(t, {"SET_VAR", "COPY_VAR", "MOVE_VAR", "HAS_VAR"})
           /\ ~Has(Top(t).locals, Target(TopNext(t).cmd))
           /\ ~Has(variables, Target(TopNext(t).cmd)))
          => /\ FailsWith(t, "UnknownVarError")
             /\ ~Has(TopNext(t).locals, Target(TopNext(t).cmd))
             /\ ~Has(variables', Target(TopNext(t).cmd))]_vars

\* the exact sum of two isize: both sign extended to 80 bits, then added
Extend(x) == x \o << IF IsNegative(x) THEN 65535 ELSE 0 >>
ExactSum(x, y) ==
    LET s1 == x[1] + y[1]
        s2 == x[2] + y[2] + (s1 \div 65536)
        s3 == x[3] + y[3] + (s2 \div 65536)
        s4 == x[4] + y[4] + (s3 \div 65536)
        s5 == Extend(x)[5] + Extend(y)[5] + (s4 \div 65536)
    IN << s1 % 65536, s2 % 65536, s3 % 65536, s4 % 65536, s5 % 65536 >>
\* the exact sum is the value of an isize
SumFits(x, y) == ExactSum(x, y) = Extend(SubSeq(ExactSum(x, y), 1, 4))

(* C5 as stated: for ALL integers a and b, ADD_INT on a target holding a    *)
(* with an operand holding b succeeds, leaves the target holding a+b and    *)
(* the operand unchanged; when target or operand is not an initialized      *)
(* Integer it fails with TypeMismatchError and no variable changes.         *)
C5_AddIntAllIntegers ==
    [][\A t \in Tasks :
          (/\ Executes(t, {"ADD_INT"})
           /\ AddVar(t).ok
           /\ AddOther(t).ok)
          => LET var_name == TopNext(t).cmd.args[1]
                 other_name == TopNext(t).cmd.args[2]
                 a == AddVar(t).v
                 b == AddOther(t).v
             IN IF as_int(a).ok /\ as_int(b).ok
                THEN /\ status'[t] = "running"
                     /\ as_int(get_var(var_name, TopNext(t).locals, variables').v).ok
                     /\ Extend(as_int(get_var(var_name, TopNext(t).locals, variables').v).n)
                           = ExactSum(as_int(a).n, as_int(b).n)
                     /\ other_name # var_name =>
                           get_var(other_name, TopNext(t).locals, variables')
                              = get_var(other_name, Top(t).locals, variables)
                ELSE /\ FailsWith(t, "TypeMismatchError")
                     /\ variables' = variables
                     /\ TopNext(t).locals = Top(t).locals]_vars

(* C5 amended: the same for all isize a and b whose sum a+b is itself an    *)
(* isize (with target = operand, x becomes 2x: 5 becomes 10).               *)
C5_AddIntWithinIsize ==
    [][\A t \in Tasks :
          (/\ Executes(t, {"ADD_INT"})
           /\ AddVar(t).ok
           /\ AddOther(t).ok)
          => LET var_name == TopNext(t).cmd.args[1]
                 other_name == TopNext(t).cmd.args[2]
                 a == AddVar(t).v
                 b == AddOther(t).v
             IN IF as_int(a).ok /\ as_int(b).ok
                THEN SumFits(as_int(a).n, as_int(b).n) =>
                     /\ status'[t] = "running"
                     /\ as_int(get_var(var_name, TopNext(t).locals, variables').v).ok
                     /\ Extend(as_int(get_var(var_name, TopNext(t).locals, variables').v).n)
                           = ExactSum(as_int(a).n, as_int(b).n)
                     /\ other_name # var_name =>
                           get_var(other_name, TopNext(t).locals, variables')
                              = get_var(other_name, Top(t).locals, variables)
                ELSE /\ FailsWith(t, "TypeMismatchError")
                     /\ variables' = variables
                     /\ TopNext(t).locals = Top(t).locals]_vars

\* ADD_INT x x has just turned x = 5 into x = 10
C5_Witness ==
    \E t \in Tasks :
        /\ Running(t)
        /\ Top(t).phase = "drop"
        /\ Top(t).cmd = Cmd("ADD_INT", <<"x", "x">>)
        /\ Has(variables, "x")
        /\ variables["x"] = from_int(Isize(10))

(* C6: inside a called function, an assignment to a name that is in the     *)
(* global table and not in the call's local table updates the global        *)
(* variable (no local entry is made), and every frame of the task that has  *)
(* no local of that name, the caller included, reads the new value.         *)
C6_WriteReachesGlobal ==
    [][\A t \in Tasks :
          (/\ Assigns(t, Assigning)
           /\ ~Top(t).is_global
           /\ status'[t] = "running"
           /\ Has(variables, Target(TopNext(t).cmd))
           /\ ~Has(Top(t).locals, Target(TopNext(t).cmd)))
          => /\ ~Has(TopNext(t).locals, Target(TopNext(t).cmd))
             /\ Has(variables', Target(TopNext(t).cmd))
             /\ variables'[Target(TopNext(t).cmd)]
                   = Written(t, TopNext(t).cmd)
             /\ \A d \in 1..Len(stacks'[t]) :
                   ~Has(stacks'[t][d].locals, Target(TopNext(t).cmd)) =>
                       get_var(Target(TopNext(t).cmd), stacks'[t][d].locals, variables')
                           = VOk(Written(t, TopNext(t).cmd))]_vars

\* the function setg, called with a global g in place, has just set it to 7
C6_Witness ==
    \E t \in Tasks :
        /\ Running(t)
        /\ Len(stacks[t]) >= 2
        /\ Top(t).fn = "setg"
        /\ Top(t).phase = "drop"
        /\ Top(t).cmd.op = "SET_VAR"
        /\ ~Has(Top(t).locals, "g")
        /\ Has(variables, "g")
        /\ variables["g"] = from_int(Isize(7))

(* C7: inside a called function, an assignment to a name that is both in    *)
(* the call's local table and in the global table changes the local entry   *)
(* only: the global variable keeps its value.                               *)
C7_ShadowedWriteStaysLocal ==
    [][\A t \in Tasks :
          (/\ Assigns(t, Assigning)
           /\ ~Top(t).is_global
           /\ status'[t] = "running"
           /\ Has(variables, Target(TopNext(t).cmd))
           /\ Has(Top(t).locals, Target(TopNext(t).cmd)))
          => /\ Has(variables', Target(TopNext(t).cmd))
             /\ variables'[Target(TopNext(t).cmd)] = variables[Target(TopNext(t).cmd)]
             /\ Has(TopNext(t).locals, Target(TopNext(t).cmd))
             /\ TopNext(t).locals[Target(TopNext(t).cmd)]
                   = Written(t, TopNext(t).cmd)]_vars

\* the function shadow, whose parameter g hides the global g = 5, has just doubled
\* its own g
C7_Witness ==
    \E t \in Tasks :
        /\ Running(t)
        /\ Len(stacks[t]) >= 2
        /\ Top(t).fn = "shadow"
        /\ Top(t).phase = "drop"
        /\ Top(t).cmd = Cmd("ADD_INT", <<"g", "g">>)
        /\ Has(variables, "g")
        /\ variables["g"] = from_int(Isize(5))
        /\ Top(t).locals["g"] = from_int(Isize(10))

\* the step is func.execute setting up the frame of a callee of the innermost frame
InvokeStep(t) ==
    /\ Running(t)
    /\ Top(t).phase = "wait"
    /\ Len(stacks'[t]) = Len(stacks[t]) + 1
\* the calling frame after an InvokeStep
CallerNext(t) == stacks'[t][Len(stacks[t])]
\* the step is Function::execute of a called function returning Ok
ReturnStep(t) ==
    /\ Running(t)
    /\ Len(stacks[t]) >= 2
    /\ Len(stacks'[t]) = Len(stacks[t]) - 1
\* the step is the i-th statement that reads of a command `op`
ReadStep(t, op, i) ==
    /\ Running(t)
    /\ Top(t).phase \in {"exec", "mid"}
    /\ Len(stacks'[t]) = Len(stacks[t])
    /\ TopNext(t).cmd.op = op
    /\ Len(Top(t).held) = i - 1
    /\ Len(Held(t)) = i
\* the step is the last one of a calling command `op` before its calls: its operands
\* are resolved
BeginStep(t, op) ==
    /\ Running(t)
    /\ Top(t).phase \in {"exec", "mid"}
    /\ Len(stacks'[t]) = Len(stacks[t])
    /\ TopNext(t).phase = "wait"
    /\ TopNext(t).cmd.op = op
\* the step is Command::execute of a calling command `op` returning Ok
EndStep(t, op) ==
    /\ Running(t)
    /\ Top(t).phase = "wait"
    /\ Top(t).cmd.op = op
    /\ Len(stacks'[t]) = Len(stacks[t])
    /\ TopNext(t).phase = "drop"

(* C8: every invocation starts with a local table of exactly its parameters *)
(* (bound to the arguments) and `result` (empty, of the result type), with  *)
(* no temp variables; INIT_VAR and TEMP_VAR inside a called function leave  *)
(* the global table alone; when the call returns its frame is discarded,    *)
(* the frames of the callers are as they were and no global name has        *)
(* appeared; and a name held only in a caller's local table does not        *)
(* resolve inside the callee.                                               *)
C8_FreshLocalsPerInvocation ==
    [][\A t \in Tasks :
          /\ InvokeStep(t) =>
                LET func == get_function(Top(t).loop.func).f
                    args == Head(Top(t).loop.pending)
                    names == {func.parameters[i].name : i \in 1..Len(func.parameters)}
                IN /\ DOMAIN TopNext(t).locals = names \cup {"result"}
                   /\ TopNext(t).locals["result"] = empty_var(func.result_type)
                   /\ \A n \in names \ {"result"} :
                         \E i \in 1..Len(args) : TopNext(t).locals[n] = args[i]
                   /\ TopNext(t).temp_vars = <<>>
                   /\ ~TopNext(t).is_global
          /\ (Executes(t, {"INIT_VAR", "TEMP_VAR"}) /\ ~Top(t).is_global) =>
                variables' = variables
          /\ ReturnStep(t) =>
                /\ stacks'[t] = SubSeq(stacks[t], 1, Len(stacks[t]) - 1)
                /\ DOMAIN variables' = DOMAIN variables
          /\ (/\ ReadStep(t, "HAS_VAR", 1)
              /\ ~Has(Top(t).locals, TopNext(t).cmd.args[1])
              /\ ~Has(variables, TopNext(t).cmd.args[1])
              /\ \E d \in 1..(Len(stacks[t]) - 1) :
                    Has(stacks[t][d].locals, TopNext(t).cmd.args[1])) =>
                ~Held(t)[1].ok
          /\ (Executes(t, {"HAS_VAR"}) /\ status'[t] = "running") =>
                get_var(TopNext(t).cmd.args[2], TopNext(t).locals, variables')
                    = VOk(from_bool(Held(t)[1].ok))]_vars

\* peek, called by outer, has just asked for outer's local `mine` and got false
C8_Witness ==
    \E t \in Tasks :
        /\ Running(t)
        /\ Len(stacks[t]) = 3
        /\ stacks[t][2].fn = "outer"
        /\ Has(stacks[t][2].locals, "mine")
        /\ ~Has(variables, "mine")
        /\ Top(t).fn = "peek"
        /\ Top(t).phase = "drop"
        /\ Top(t).cmd = Cmd("HAS_VAR", <<"mine", "b">>)
        /\ DOMAIN Top(t).locals \subseteq {"result", "b"}
        /\ get_var("b", Top(t).locals, variables) = VOk(from_bool(FALSE))

(* C9: FOR_LIST f l resolves l once, when it starts; its k-th invocation is *)
(* of f, with the k-th element of that list as the single argument and no   *)
(* result variable, so a return from it leaves the global table alone; when *)
(* FOR_LIST returns there has been one invocation per element of that list, *)
(* whatever the invocations did to the variable l.                          *)
C9_ForListOncePerElement ==
    [][\A t \in Tasks :
          /\ ReadStep(t, "FOR_LIST", 1) =>
                Held(t)[1] = get_var(TopNext(t).cmd.args[2], Top(t).locals, variables)
          /\ BeginStep(t, "FOR_LIST") =>
                /\ TopNext(t).loop.src = << Held(t)[1].v >>
                /\ TopNext(t).loop.invoked = <<>>
          /\ (InvokeStep(t) /\ Top(t).cmd.op = "FOR_LIST") =>
                LET elems == as_list(Top(t).loop.src[1]).s
                    k == Len(Top(t).loop.invoked) + 1
                    func == get_function(Top(t).cmd.args[1]).f
                IN /\ k <= Len(elems)
                   /\ TopNext(t).fn = Top(t).cmd.args[1]
                   /\ TopNext(t).result_var = "null"
                   /\ CallerNext(t).loop.invoked = Append(Top(t).loop.invoked, << elems[k] >>)
                   /\ \A i \in 1..Len(func.parameters) :
                         TopNext(t).locals[func.parameters[i].name] = elems[k]
          /\ (ReturnStep(t) /\ stacks[t][Len(stacks[t]) - 1].cmd.op = "FOR_LIST"
                            /\ stacks[t][Len(stacks[t]) - 1].phase = "wait") =>
                variables' = variables
          /\ EndStep(t, "FOR_LIST") =>
                Len(Top(t).loop.invoked) = Len(as_list(Top(t).loop.src[1]).s)]_vars

\* the second invocation of each under FOR_LIST each args: the first one removed
\* the head of args, and this one still got the second element of the original list
C9_Witness ==
    \E t \in Tasks :
        /\ Running(t)
        /\ Len(stacks[t]) = 2
        /\ stacks[t][1].cmd = Cmd("FOR_LIST", <<"each", "args">>)
        /\ stacks[t][1].phase = "wait"
        /\ Len(stacks[t][1].loop.invoked) = 2
        /\ Len(as_list(stacks[t][1].loop.src[1]).s) >= 2
        /\ variables["args"] # stacks[t][1].loop.src[1]
        /\ Top(t).fn = "each"
        /\ Top(t).locals["e"] = as_list(stacks[t][1].loop.src[1]).s[2]

(* C10: FOR f s e resolves s and e once, when it starts; its k-th           *)
(* invocation is of f with the Integer s + k - 1 as the single argument and *)
(* no result variable, so a return from it leaves the global table alone;   *)
(* when FOR returns there have been max(0, e - s + 1) invocations (none     *)
(* when s > e).                                                             *)
C10_ForInvokesRange ==
    [][\A t \in Tasks :
          /\ ReadStep(t, "FOR", 1) =>
                Held(t)[1] = get_var(TopNext(t).cmd.args[2], Top(t).locals, variables)
          /\ ReadStep(t, "FOR", 2) =>
                Held(t)[2] = get_var(TopNext(t).cmd.args[3], Top(t).locals, variables)
          /\ BeginStep(t, "FOR") =>
                /\ TopNext(t).loop.src = << Held(t)[1].v, Held(t)[2].v >>
                /\ TopNext(t).loop.invoked = <<>>
          /\ (InvokeStep(t) /\ Top(t).cmd.op = "FOR") =>
                LET s == ToInt(as_int(Top(t).loop.src[1]).n)
                    e == ToInt(as_int(Top(t).loop.src[2]).n)
                    k == Len(Top(t).loop.invoked) + 1
                    func == get_function(Top(t).cmd.args[1]).f
                IN /\ s + k - 1 <= e
                   /\ TopNext(t).fn = Top(t).cmd.args[1]
                   /\ TopNext(t).result_var = "null"
                   /\ CallerNext(t).loop.invoked
                         = Append(Top(t).loop.invoked, << from_int(Isize(s + k - 1)) >>)
                   /\ \A i \in 1..Len(func.parameters) :
                         TopNext(t).locals[func.parameters[i].name] = from_int(Isize(s + k - 1))
          /\ (ReturnStep(t) /\ stacks[t][Len(stacks[t]) - 1].cmd.op = "FOR"
                            /\ stacks[t][Len(stacks[t]) - 1].phase = "wait") =>
                variables' = variables
          /\ EndStep(t, "FOR") =>
                LET s == ToInt(as_int(Top(t).loop.src[1]).n)
                    e == ToInt(as_int(Top(t).loop.src[2]).n)
                IN Len(Top(t).loop.invoked) = IF e - s + 1 > 0 THEN e - s + 1 ELSE 0]_vars

\* FOR count s e with s = 1 and e = 3 has returned after three invocations, which
\* added 1, 2 and 3 to g = 0
C10_Witness ==
    \E t \in Tasks :
        /\ Running(t)
        /\ Top(t).phase = "drop"
        /\ Top(t).cmd = Cmd("FOR", <<"count", "s", "e">>)
        /\ Top(t).loop.src = << from_int(Isize(1)), from_int(Isize(3)) >>
        /\ Top(t).loop.invoked
              = << <<from_int(Isize(1))>>, <<from_int(Isize(2))>>, <<from_int(Isize(3))>> >>
        /\ Has(variables, "g")
        /\ variables["g"] = from_int(Isize(6))

\* the frame that called the innermost one
Caller(t) == stacks[t][Len(stacks[t]) - 1]
\* the step is the drop pass that follows a command `op` of the innermost frame
DropStep(t, op) ==
    /\ Running(t)
    /\ Top(t).phase = "drop"
    /\ Top(t).cmd.op = op
    /\ Len(stacks'[t]) = Len(stacks[t])
    /\ TopNext(t).phase = "exec"

(* C11: IF cond f reads cond once; it invokes f (from its first command,    *)
(* with no result variable) exactly once when cond is true and never when   *)
(* cond is false, and in both cases the IF command then returns and the     *)
(* frame goes on with the command after it.                                 *)
C11_IfRunsOnceOrNever ==
    [][\A t \in Tasks :
          /\ ReadStep(t, "IF", 2) =>
                Held(t)[2] = get_var(TopNext(t).cmd.args[1], Top(t).locals, variables)
          /\ BeginStep(t, "IF") =>
                /\ TopNext(t).loop.src = << Held(t)[2].v >>
                /\ TopNext(t).loop.invoked = <<>>
                /\ Len(TopNext(t).loop.pending)
                      = IF as_bool(TopNext(t).loop.src[1]).n = 1 THEN 1 ELSE 0
          /\ (InvokeStep(t) /\ Top(t).cmd.op = "IF") =>
                /\ as_bool(Top(t).loop.src[1]).n = 1
                /\ Top(t).loop.invoked = <<>>
                /\ TopNext(t).fn = Top(t).cmd.args[2]
                /\ TopNext(t).pc = 1
                /\ TopNext(t).result_var = "null"
          /\ EndStep(t, "IF") =>
                /\ Len(Top(t).loop.invoked)
                      = IF as_bool(Top(t).loop.src[1]).n = 1 THEN 1 ELSE 0
                /\ TopNext(t).pc = Top(t).pc
          /\ DropStep(t, "IF") => TopNext(t).pc = Top(t).pc + 1]_vars

\* IF c setg with c true has returned after one invocation of setg, which set g to 7
C11_Witness ==
    \E t \in Tasks :
        /\ Running(t)
        /\ Top(t).phase = "drop"
        /\ Top(t).cmd = Cmd("IF", <<"c", "setg">>)
        /\ Top(t).loop.src = << from_bool(TRUE) >>
        /\ Len(Top(t).loop.invoked) = 1
        /\ Has(variables, "g")
        /\ variables["g"] = from_int(Isize(7))

(* C12: WHILE f, in the top-level list or in a function body, invokes f at  *)
(* least once; when an invocation of f ends with a Bool `result`, that      *)
(* value is what WHILE reads as its condition; and WHILE returns as soon as *)
(* the condition it reads is false.                                         *)
C12_WhileStopsAtFalse ==
    [][\A t \in Tasks :
          /\ BeginStep(t, "WHILE") => Len(TopNext(t).loop.pending) = 1
          /\ (/\ ReturnStep(t)
              /\ Caller(t).cmd.op = "WHILE"
              /\ Caller(t).phase = "wait"
              /\ Top(t).pc > Len(Body(Top(t)))
              /\ Has(Top(t).locals, "result")
              /\ as_bool(Top(t).locals["result"]).ok) =>
                get_var("while", TopNext(t).locals, variables')
                    = VOk(Top(t).locals["result"])
          /\ (/\ Running(t)
              /\ Top(t).phase = "wait"
              /\ Top(t).cmd.op = "WHILE"
              /\ Top(t).loop.pending = <<>>
              /\ get_var("while", Top(t).locals, variables) = VOk(from_bool(FALSE))
              /\ stacks'[t] # stacks[t]) =>
                (Len(stacks'[t]) = Len(stacks[t]) /\ TopNext(t).phase = "drop")]_vars

(* C13: when USE_FUNC f r args, with r not `null`, completes at the end of  *)
(* f's commands, r in the caller's table (the caller's local table when the *)
(* caller is a function, the global table when the call is at top level)    *)
(* holds the final value of f's `result`.                                   *)
C13_ResultReachesCaller ==
    [][\A t \in Tasks :
          (/\ ReturnStep(t)
           /\ Caller(t).cmd.op = "USE_FUNC"
           /\ Caller(t).phase = "wait"
           /\ Top(t).pc > Len(Body(Top(t)))
           /\ Top(t).result_var # "null"
           /\ Has(Top(t).locals, "result")) =>
             IF TopNext(t).is_global
             THEN /\ Has(variables', Top(t).result_var)
                  /\ variables'[Top(t).result_var] = Top(t).locals["result"]
             ELSE /\ Has(TopNext(t).locals, Top(t).result_var)
                  /\ TopNext(t).locals[Top(t).result_var] = Top(t).locals["result"]]_vars

(* C14: when the next command of a function body is RETURN, the call ends  *)
(* there: its frame is gone, the frames of the callers and the global table *)
(* are as they were, and the caller is still inside its calling command, so *)
(* it continues; no frame ever stands past a RETURN of its body. When the   *)
(* top-level list ends (at a RETURN or at its last command) the run is a    *)
(* success with nothing changed, and nothing of that task runs afterwards.  *)
C14_NothingRunsAfterReturn ==
    [][\A t \in Tasks :
          /\ (/\ Running(t)
              /\ Top(t).fn # "main"
              /\ Top(t).phase = "exec"
              /\ Top(t).pc <= Len(Body(Top(t)))
              /\ Body(Top(t))[Top(t).pc].op = "RETURN"
              /\ stacks'[t] # stacks[t]) =>
                /\ stacks'[t] = SubSeq(stacks[t], 1, Len(stacks[t]) - 1)
                /\ variables' = variables
                /\ status'[t] = "running"
          /\ \A d \in 1..Len(stacks'[t]) :
                /\ stacks'[t][d].cmd.op # "RETURN"
                /\ stacks'[t][d].fn # "main" =>
                      \A i \in 1..Len(Body(stacks'[t][d])) :
                          i < stacks'[t][d].pc => Body(stacks'[t][d])[i].op # "RETURN"
          /\ (Running(t) /\ Len(stacks[t]) = 1 /\ stacks'[t] = <<>>) =>
                /\ status'[t] = "ok"
                /\ variables' = variables
                /\ error'[t].e = "none"
          /\ status[t] = "ok" => (status'[t] = "ok" /\ stacks'[t] = stacks[t])]_vars

\* USE_FUNC early g has returned: early stopped at its RETURN, so the SET_VAR g 7
\* after it never ran
C14_Witness ==
    \E t \in Tasks :
        /\ Running(t)
        /\ Top(t).phase = "drop"
        /\ Top(t).cmd = Cmd("USE_FUNC", <<"early", "g">>)
        /\ Has(variables, "g")
        /\ variables["g"] # from_int(Isize(7))

(* C15: every invocation binds the i-th declared parameter to the i-th    *)
(* argument of the call (so the binding is the same on every invocation,    *)
(* whatever the iteration order of the parameter table).                    *)
C15_ParametersBoundInOrder ==
    [][\A t \in Tasks :
          InvokeStep(t) =>
             LET func == get_function(Top(t).loop.func).f
                 args == Head(Top(t).loop.pending)
             IN \A i \in 1..Len(func.parameters) :
                   TopNext(t).locals[func.parameters[i].name] = args[i]]_vars

(* C16: when a command of the main task fails with a ScriptError, at any   *)
(* depth of nested calls, the run is failed with that error paired with the *)
(* command the innermost frame was executing; the enclosing frames are left *)
(* where they were, and from then on no frame of the task moves: no later   *)
(* command and no further loop iteration runs.                              *)
C16_FailureEndsTheRun ==
    [][/\ (status[0] = "running" /\ status'[0] = "failed") =>
             /\ error'[0].e \notin {"none", "panic"}
             /\ Len(stacks'[0]) = Len(stacks[0])
             /\ error'[0].cmd = TopNext(0).cmd
             /\ TopNext(0).pc = Top(0).pc
             /\ \A d \in 1..(Len(stacks[0]) - 1) : stacks'[0][d] = stacks[0][d]
       /\ status[0] = "failed" =>
             /\ status'[0] = "failed"
             /\ error'[0] = error[0]
             /\ stacks'[0] = stacks[0]]_vars

\* FOR count s e, with no variable g for count to add to: the ADD_INT of the first
\* invocation failed, and the iterations still to come are never made
C16_Witness ==
    /\ status[0] = "failed"
    /\ Len(stacks[0]) = 2
    /\ stacks[0][1].cmd.op = "FOR"
    /\ stacks[0][1].phase = "wait"
    /\ stacks[0][1].loop.pending # <<>>
    /\ error[0] = [e |-> "UnknownVarError", cmd |-> Cmd("ADD_INT", <<"g", "i">>)]
    /\ Top(0).cmd = error[0].cmd

\* an initialized stream value
OpenStream(v) == v.t.k \in {"InStream", "OutStream"} /\ v.init

(* C20: EQUALS on two initialized stream variables stores true exactly when *)
(* both hold the same handle: a COPY_VAR copy equals its original, and two  *)
(* separately opened handles are unequal even when their content is the     *)
(* same.                                                                    *)
C20_StreamsEqualByHandle ==
    [][\A t \in Tasks :
          (/\ Executes(t, {"EQUALS"})
           /\ Operand(t, 1, 1).ok
           /\ Operand(t, 2, 2).ok
           /\ OpenStream(Operand(t, 1, 1).v)
           /\ OpenStream(Operand(t, 2, 2).v))
          => get_var(TopNext(t).cmd.args[3], TopNext(t).locals, variables')
                = VOk(from_bool(
                     /\ Operand(t, 1, 1).v.t.k = Operand(t, 2, 2).v.t.k
                     /\ Operand(t, 1, 1).v.sc[1] = Operand(t, 2, 2).v.sc[1]))]_vars

\* the script's file was opened twice, as s1 and as s2, both streams hold the same
\* bytes, and EQUALS s1 s2 r has just stored false
C20_Witness ==
    /\ Running(0)
    /\ Top(0).phase = "drop"
    /\ Top(0).cmd = Cmd("EQUALS", <<"s1", "s2", "r">>)
    /\ Has(variables, "s1") /\ Has(variables, "s2") /\ Has(variables, "r")
    /\ OpenStream(variables["s1"]) /\ OpenStream(variables["s2"])
    /\ variables["s1"].sc # variables["s2"].sc
    /\ streams[variables["s1"].sc[1]] = streams[variables["s2"].sc[1]]
    /\ variables["r"] = from_bool(FALSE)

(* C17: a ScriptError inside a task started by NEW_THREAD ends that task    *)
(* only: the task that runs the top-level list keeps its position, its      *)
(* status and its (absent) error, and a task that executes NEW_THREAD of a  *)
(* known function goes on to its next instruction.                          *)
C17_ThreadFailureIsolated ==
    [][/\ \A u \in Tasks \ {0} :
             (status[u] = "running" /\ status'[u] = "failed")
             => /\ status'[0] = status[0]
                /\ error'[0] = error[0]
                /\ stacks'[0] = stacks[0]
       /\ \A t \in Tasks :
             (Executes(t, {"NEW_THREAD"}) /\ get_function(TopNext(t).cmd.args[1]).ok)
             => /\ status'[t] = "running"
                /\ error'[t] = error[t]
                /\ TopNext(t).phase = "drop"]_vars

\* the task started by NEW_THREAD broken has failed at COPY_VAR nope n, and the top
\* level, which started it as its second command, has executed its third
C17_Witness ==
    /\ status[1] = "failed"
    /\ error[1] = [e |-> "UnknownVarError", cmd |-> Cmd("COPY_VAR", <<"nope", "n">>)]
    /\ Running(0)
    /\ Top(0).pc = 3
    /\ Top(0).phase = "drop"
    /\ Top(0).cmd = Cmd("SET_VAR", <<"n", "1">>)
    /\ error[0].e = "none"

(* C18: ADD_INT stores, in a lock acquisition of its own, the sum of the    *)
(* values its earlier reads returned, whatever the target holds by then; so *)
(* two tasks adding b and c to a global holding a can end with a+b or a+c.  *)
C18_AddIntWritesWhatItRead ==
    [][\A t \in Tasks :
          /\ ReadStep(t, "ADD_INT", 1) =>
                Held(t)[1] = get_var(TopNext(t).cmd.args[2], Top(t).locals, variables)
          /\ ReadStep(t, "ADD_INT", 2) =>
                Held(t)[2] = get_var(TopNext(t).cmd.args[1], Top(t).locals, variables)
          /\ (Executes(t, {"ADD_INT"}) /\ status'[t] = "running") =>
                get_var(TopNext(t).cmd.args[1], TopNext(t).locals, variables')
                   = VOk(from_int(WrappingAdd(as_int(Held(t)[2].v).n,
                                              as_int(Held(t)[1].v).n)))]_vars

\* n = 1; the task bump has added 5 to n and ended, the top level has completed
\* ADD_INT n n, and n is 2 or 6: one of the two updates is lost
C18_Witness ==
    /\ status[1] = "ok"
    /\ Running(0)
    /\ Top(0).phase = "drop"
    /\ Top(0).cmd = Cmd("ADD_INT", <<"n", "n">>)
    /\ Has(variables, "n")
    /\ variables["n"] \in {from_int(Isize(2)), from_int(Isize(6))}

\* an initialized map, and the key-value pairs it holds
IsMap(v) == v.t.k = "Map" /\ v.init
PairSet(v) == { <<v.items[i].items[1], v.items[i].items[2]>> : i \in 1..Len(v.items) }

(* C19: two maps are equal exactly when they hold the same set of key-value *)
(* pairs, whatever order each map iterates in, and EQUALS on two such maps  *)
(* stores true.                                                             *)
C19_MapsEqualAsPairSets ==
    [][\A t \in Tasks :
          (/\ Executes(t, {"EQUALS"})
           /\ status'[t] = "running"
           /\ Operand(t, 1, 1).ok
           /\ Operand(t, 2, 2).ok
           /\ IsMap(Operand(t, 1, 1).v)
           /\ IsMap(Operand(t, 2, 2).v))
          => get_var(TopNext(t).cmd.args[3], TopNext(t).locals, variables')
                = VOk(from_bool(PairSet(Operand(t, 1, 1).v) = PairSet(Operand(t, 2, 2).v)))
          ]_vars

\* the elements of a string (its bytes) or of a list
Elements(v) == IF v.t.k = "String" THEN v.sc ELSE v.items
Sized(v) == v.init /\ v.t.k \in {"String", "List"}
SmallNat(v) == as_int(v).ok /\ Fits(as_usize(as_int(v).n))

(* C21: SUB_STR v s e (SUB_LIST v s e) with 0 <= s <= e <= size replaces v  *)
(* by the elements of its former value at positions s .. e-1, in order, so  *)
(* the new size is e - s.                                                   *)
C21_SubKeepsTheRange ==
    [][\A t \in Tasks :
          (/\ Executes(t, {"SUB_STR", "SUB_LIST"})
           /\ Operand(t, 1, 1).ok
           /\ Operand(t, 2, 2).ok
           /\ get_var(TopNext(t).cmd.args[3], Top(t).locals, variables).ok)
          => LET v == Operand(t, 1, 1).v
                 s == Operand(t, 2, 2).v
                 e == get_var(TopNext(t).cmd.args[3], Top(t).locals, variables).v
                 after == get_var(TopNext(t).cmd.args[1], TopNext(t).locals, variables')
             IN (/\ Sized(v)
                 /\ v.t.k = (IF TopNext(t).cmd.op = "SUB_STR" THEN "String" ELSE "List")
                 /\ SmallNat(s) /\ SmallNat(e)
                 /\ ToInt(as_int(s).n) <= ToInt(as_int(e).n)
                 /\ ToInt(as_int(e).n) <= Len(Elements(v)))
                => /\ status'[t] = "running"
                   /\ after.ok
                   /\ Sized(after.v)
                   /\ Elements(after.v)
                        = SubSeq(Elements(v), ToInt(as_int(s).n) + 1, ToInt(as_int(e).n))
                   /\ Len(Elements(after.v)) = ToInt(as_int(e).n) - ToInt(as_int(s).n)]_vars

\* the kind of value a size instruction is for
SizeKind(op) ==
    CASE op = "LIST_SIZE" -> "List" [] op = "STRING_SIZE" -> "String" [] OTHER -> "Map"

(* C22: LIST_SIZE on a list of n elements, STRING_SIZE on a string of n     *)
(* bytes and MAP_SIZE on a map of n entries succeed and store the integer n *)
(* in the result variable.                                                  *)
C22_SizeStoresTheCount ==
    [][\A t \in Tasks :
          (/\ Executes(t, {"LIST_SIZE", "STRING_SIZE", "MAP_SIZE"})
           /\ Operand(t, 1, 1).ok
           /\ Operand(t, 1, 1).v.init
           /\ Operand(t, 1, 1).v.t.k = SizeKind(TopNext(t).cmd.op))
          => /\ status'[t] = "running"
             /\ get_var(TopNext(t).cmd.args[2], TopNext(t).locals, variables')
                  = VOk(from_int(Isize(Len(IF TopNext(t).cmd.op = "STRING_SIZE"
                                           THEN Operand(t, 1, 1).v.sc
                                           ELSE Operand(t, 1, 1).v.items))))]_vars

\* a value WRITE is for: a char, a string, a list of chars (declared list[char], or made
\* by TO_CHARS); and its bytes
Writable(v) ==
    \/ v.t.k \in {"Char", "String"}
    \/ v.t.k = "List" /\ (v.t = TList(TChar) \/ v.t = ToCharsType)
BytesOf(v) ==
    IF v.t.k = "List" THEN [i \in 1..Len(v.items) |-> v.items[i].sc[1]] ELSE v.sc

(* C23: WRITE v out succeeds for an initialized v of type char, string or   *)
(* list[char] and appends exactly v's bytes, in order, to the stream; for   *)
(* any other type it fails with TypeMismatchError and writes nothing.       *)
C23_WriteAppendsTheBytes ==
    [][\A t \in Tasks :
          (/\ Executes(t, {"WRITE"})
           /\ Operand(t, 1, 1).ok
           /\ Operand(t, 1, 1).v.init
           /\ Operand(t, 2, 2).ok
           /\ as_out_stream(Operand(t, 2, 2).v).ok)
          => LET v == Operand(t, 1, 1).v
                 h == as_out_stream(Operand(t, 2, 2).v).n
             IN IF Writable(v)
                THEN /\ status'[t] = "running"
                     /\ streams' = [streams EXCEPT ![h] = @ \o BytesOf(v)]
                ELSE /\ FailsWith(t, "TypeMismatchError")
                     /\ streams' = streams]_vars

\* the step is the call of the stream (of thread::sleep) of a command `op` returning
Unblocks(t, op) ==
    /\ Running(t)
    /\ Top(t).phase = "block"
    /\ Top(t).cmd.op = op
    /\ stacks'[t] # stacks[t]

(* C24: READ v n in, with at least n bytes left on the stream, takes        *)
(* exactly the next n bytes off the stream (a following READ continues at   *)
(* byte n) and stores them in v: as a string when v was declared string, as *)
(* a list of chars when v was declared list[char].                          *)
C24_ReadTakesNBytes ==
    [][\A t \in Tasks :
          /\ (/\ Unblocks(t, "READ")
              /\ SmallNat(Top(t).held[2].v)
              /\ Top(t).held[1].v.t \in {TString, TList(TChar)})
             => LET n == ToInt(as_int(Top(t).held[2].v).n)
                    h == as_in_stream(Top(t).held[3].v).n
                IN n <= Len(streams[h]) =>
                      /\ streams' = [streams EXCEPT ![h] = SubSeq(@, n + 1, Len(@))]
                      /\ Held(t)[4] = VOk(from_str(SubSeq(streams[h], 1, n)))
          /\ (Executes(t, {"READ"}) /\ Len(Held(t)) = 4)
             => LET v == Held(t)[1].v
                    after == get_var(TopNext(t).cmd.args[1], TopNext(t).locals, variables')
                IN (v.t = TString \/ v.t = TList(TChar))
                   => /\ status'[t] = "running"
                      /\ after.ok
                      /\ after.v.init
                      /\ after.v.t.k = v.t.k
                      /\ BytesOf(after.v) = Held(t)[4].v.sc]_vars

\* a name without dots
Plain(name) == Len(SplitDots(name)) = 1

\* the command of the step has two distinct names as its first two arguments, both
\* without dots when `plain`
Named(t, plain) ==
    /\ TopNext(t).cmd.args[1] # TopNext(t).cmd.args[2]
    /\ plain => Plain(TopNext(t).cmd.args[1]) /\ Plain(TopNext(t).cmd.args[2])

\* MOVE_VAR s t reads s, stores what it read under t, and drops s, in three statements:
\* if s does not resolve the instruction fails and nothing is changed; else t resolves
\* to the value read once it is stored
MoveStoresTheSource(t, plain) ==
    /\ (ReadStep(t, "MOVE_VAR", 1) /\ Named(t, plain)) =>
          /\ Held(t)[1] = get_var(TopNext(t).cmd.args[1], Top(t).locals, variables)
          /\ ~Held(t)[1].ok =>
                /\ status'[t] = "failed"
                /\ variables' = variables
                /\ TopNext(t).locals = Top(t).locals
    /\ (Moves(t) /\ Top(t).phase = "mid" /\ status'[t] = "running" /\ Named(t, plain)) =>
          get_var(TopNext(t).cmd.args[2], TopNext(t).locals, variables')
             = VOk(Held(t)[1].v)

\* the step is the statement of MOVE_VAR that drops the source, returning Ok
MoveDrops(t, plain) ==
    /\ Executes(t, {"MOVE_VAR"})
    /\ Len(Top(t).held) = 2
    /\ status'[t] = "running"
    /\ Named(t, plain)

(* C25 as stated: after MOVE_VAR s t succeeds with distinct names s and t,  *)
(* t resolves to the value s held before and s no longer resolves           *)
(* (UnknownVarError); if s does not resolve, the instruction fails and t is *)
(* unchanged.                                                               *)
C25_MoveLeavesSourceUnknown ==
    [][\A t \in Tasks :
          /\ MoveStoresTheSource(t, FALSE)
          /\ MoveDrops(t, FALSE) =>
                get_var(TopNext(t).cmd.args[1], TopNext(t).locals, variables')
                   = VErr("UnknownVarError")]_vars

(* C25 amended: the same for distinct names without dots, except that when *)
(* s named a local that hid a global of that name, the local is removed and *)
(* s resolves to that global afterwards.                                    *)
C25_MoveRemovesTheSource ==
    [][\A t \in Tasks :
          /\ MoveStoresTheSource(t, TRUE)
          /\ MoveDrops(t, TRUE) =>
                LET s == TopNext(t).cmd.args[1]
                IN IF Has(Top(t).locals, s) /\ Has(variables, s)
                   THEN /\ ~Has(TopNext(t).locals, s)
                        /\ get_var(s, TopNext(t).locals, variables') = VOk(variables[s])
                   ELSE get_var(s, TopNext(t).locals, variables')
                           = VErr("UnknownVarError")]_vars

\* at top level MOVE_VAR g x has just moved g = 5 to x
C25_Witness ==
    /\ Running(0)
    /\ Top(0).phase = "drop"
    /\ Top(0).cmd = Cmd("MOVE_VAR", <<"g", "x">>)
    /\ ~Has(variables, "g")
    /\ Has(variables, "x")
    /\ variables["x"] = from_int(Isize(5))

\* paths of two segments a frame may resolve
ListProbes == {"args.0", "args.1", "args.5", "g.0", "x.0"}

(* C26: resolving a path l.i: l is looked up in the local table and only if *)
(* absent there in the global table; when it is an initialized list, an     *)
(* index i within bounds yields element i and one outside the bounds fails  *)
(* with UnknownVarError; when it is not a container the path fails with     *)
(* TypeMismatchError.                                                       *)
C26_ListPathResolves ==
    \A t \in Tasks :
        Running(t) =>
            \A name \in ListProbes :
                LET l == SplitDots(name)[1]
                    i == Small(ParseUsize(Chars(SplitDots(name)[2])).n)
                    L == Top(t).locals
                    first == IF Has(L, l) THEN L[l] ELSE variables[l]
                IN (Has(L, l) \/ Has(variables, l)) =>
                      IF first.t.k = "List" /\ first.init
                      THEN IF i < Len(first.items)
                           THEN get_var(name, L, variables) = VOk(first.items[i + 1])
                           ELSE get_var(name, L, variables) = VErr("UnknownVarError")
                      ELSE first.t.k \notin {"List", "Map"} =>
                              get_var(name, L, variables) = VErr("TypeMismatchError")

\* inside head, whose parameter args (the chars of "h") hides the global list args,
\* COPY_VAR args.0 h has just read the parameter's element 0, not the global's
C26_Witness ==
    /\ Running(0)
    /\ Len(stacks[0]) = 2
    /\ Top(0).fn = "head"
    /\ Top(0).phase = "drop"
    /\ Top(0).cmd = Cmd("COPY_VAR", <<"args.0", "h">>)
    /\ Has(Top(0).locals, "args")
    /\ Has(Top(0).locals, "h")
    /\ Top(0).locals["h"] = from_char(104)
    /\ get_var("args.0", EmptyTable, variables) = VOk(from_str(Chars("hi")))

\* the key 1 of a map with integer keys, the entries of a map under a key, and the
\* pairs of a map under other keys
KeyOne == from_int(Isize(1))
Under(m, key) == { p \in PairSet(m) : p[1] = key }
Beside(m, key) == { p \in PairSet(m) : p[1] # key }

(* C27: for a map m with integer keys, the path m.1 is the entry under the  *)
(* key 1 (the segment parsed as a value of the key type): reading it        *)
(* returns the value stored there, assigning to it inserts or replaces that *)
(* entry, dropping it removes the entry.                                    *)
C27_MapPathIsTheEntry ==
    [][\A t \in Tasks :
          (/\ Executes(t, {"COPY_VAR", "DROP_VAR"})
           /\ Top(t).is_global
           /\ Has(variables, "a")
           /\ IsMap(variables["a"]))
          => LET cmd == TopNext(t).cmd
                 m == variables["a"]
             IN /\ (cmd = Cmd("COPY_VAR", <<"a.1", "r">>) /\ Under(m, KeyOne) # {})
                   => /\ status'[t] = "running"
                      /\ Has(variables', "r")
                      /\ <<KeyOne, variables'["r"]>> \in PairSet(m)
                /\ cmd = Cmd("COPY_VAR", <<"args.0", "a.1">>)
                   => /\ status'[t] = "running"
                      /\ PairSet(variables'["a"])
                           = Beside(m, KeyOne) \cup {<<KeyOne, variables["args"].items[1]>>}
                /\ (cmd = Cmd("DROP_VAR", <<"a.1">>) /\ Under(m, KeyOne) # {})
                   => /\ status'[t] = "running"
                      /\ PairSet(variables'["a"]) = Beside(m, KeyOne)]_vars

\* the payload of a value fits its descriptor: the elements of a list[T] have the
\* descriptor T, an optional[T] holds a T, a map[K, V] keys of K and values of V
RECURSIVE PayloadFits(_)
PayloadFits(v) ==
    IF ~v.init THEN TRUE
    ELSE IF v.t.k \in {"List", "Optional"}
         THEN \A i \in 1..Len(v.items) :
                  get_type(v.items[i]) = v.t.a[1] /\ PayloadFits(v.items[i])
    ELSE IF v.t.k = "Map"
         THEN \A i \in 1..Len(v.items) :
                  /\ get_type(v.items[i].items[1]) = v.t.a[1]
                  /\ get_type(v.items[i].items[2]) = v.t.a[2]
                  /\ PayloadFits(v.items[i].items[1])
                  /\ PayloadFits(v.items[i].items[2])
    ELSE TRUE

\* every value kept in a variable table of the run
StoredValues ==
    { variables[n] : n \in DOMAIN variables }
      \cup UNION { UNION { { stacks[t][d].locals[n] : n \in DOMAIN stacks[t][d].locals }
                           : d \in 1..Len(stacks[t]) } : t \in Tasks }

(* C28: at every moment every stored value has a payload that fits its      *)
(* descriptor; in particular a stored list carries list[T] and holds only   *)
(* elements of descriptor T (TO_CHARS stores a list[char] of chars,         *)
(* SUB_LIST a list with the descriptor of its source).                      *)
C28_PayloadFitsDescriptor == \A v \in StoredValues : PayloadFits(v)

\* the temp names declared after entry i of temp_vars
DeclaredAfter(f, i) == { f.temp_vars[j] : j \in (i + 1)..Len(f.temp_vars) }

(* C29: a temp variable resolves for exactly one following command, a       *)
(* TEMP_VAR included: at the head of the loop a temp name whose TEMP_VAR    *)
(* was the last command resolves, and a temp name with one completed        *)
(* command of any kind since its TEMP_VAR (and not declared again since)    *)
(* does not resolve: in TEMP_VAR a; TEMP_VAR b; I1 the name a is            *)
(* unresolvable when I1 executes.                                           *)
C29_TempVarLivesOneCommandOfAnyKind ==
    \A t \in Tasks :
        (Running(t) /\ Top(t).phase = "exec" /\ NextCmds(Top(t)) # {}) =>
            \A i \in 1..Len(Top(t).temp_vars) :
                /\ Top(t).tlog[i].after = 0 =>
                      get_var(Top(t).temp_vars[i], Top(t).locals, variables).ok
                /\ (/\ Top(t).tlog[i].after = 1
                    /\ Top(t).temp_vars[i] \notin DeclaredAfter(Top(t), i)) =>
                      get_var(Top(t).temp_vars[i], Top(t).locals, variables)
                          = VErr("UnknownVarError")

\* entry i of temp_vars has been through a drop pass, and its name has not been
\* declared as a temp variable again since
Spent(f, i) == f.tlog[i].plain >= 1 /\ f.temp_vars[i] \notin DeclaredAfter(f, i)

\* the step is one drop_var of a drop pass of the innermost frame of t
DropsName(t) ==
    /\ Running(t)
    /\ Top(t).phase = "drop"
    /\ Top(t).temp_vars # <<>>
    /\ Len(stacks'[t]) = Len(stacks[t])
    /\ stacks'[t] # stacks[t]
    /\ TopNext(t).phase \in {"drop", "exec"}

(* C30: a temp name that has been dropped is no longer pending: a later     *)
(* drop pass of the same instruction list removes no variable of that name, *)
(* so a variable declared afterwards under the name (or a global the temp   *)
(* had shadowed) resolves after the drop pass as it did before it.          *)
C30_DroppedNameIsNotPending ==
    [][\A t \in Tasks :
          DropsName(t)
          => \A i \in 1..Len(Top(t).temp_vars) :
                Spent(Top(t), i)
                => get_var(Top(t).temp_vars[i], TopNext(t).locals, variables')
                      = get_var(Top(t).temp_vars[i], Top(t).locals, variables)]_vars

\* the first statement of a command of ops of task t: the step leaves the loop of
\* Function::execute in the middle of the command, or at its end
Starts(t, ops) ==
    /\ Running(t)
    /\ Top(t).phase = "exec"
    /\ NextCmds(Top(t)) # {}
    /\ Len(stacks'[t]) = Len(stacks[t])
    /\ stacks'[t] # stacks[t]
    /\ TopNext(t).phase # "poisoned"
    /\ TopNext(t).cmd.op \in ops

(* C31: UNPACK_OPTIONAL o r right after PACK_OPTIONAL v o (v initialized)   *)
(* succeeds and leaves r equal to v, and HAS_OPTIONAL o r stores true;      *)
(* right after NONE_OPTIONAL o, HAS_OPTIONAL o r stores false and           *)
(* UNPACK_OPTIONAL o r fails and leaves r as it was. The command reads o in *)
(* one statement and stores r in a later one: what it reads right after     *)
(* PACK_OPTIONAL v o is the optional that holds the value of v, what it     *)
(* reads right after NONE_OPTIONAL o is the empty one; from what it read,   *)
(* HAS_OPTIONAL stores whether it has a content, UNPACK_OPTIONAL stores the *)
(* content, and with none it fails and leaves r as it was.                  *)
C31_OptionalRoundTrip ==
    [][\A t \in Tasks :
          /\ Starts(t, {"UNPACK_OPTIONAL", "HAS_OPTIONAL"})
             => LET cmd == TopNext(t).cmd
                    prev == Top(t).cmd
                    L == Top(t).locals
                    o == cmd.args[1]
                    r == cmd.args[2]
                IN /\ (/\ prev.op = "PACK_OPTIONAL"
                       /\ prev.args[2] = o
                       /\ prev.args[1] # o
                       /\ get_var(prev.args[1], L, variables).ok
                       /\ get_var(prev.args[1], L, variables).v.init)
                      => /\ status'[t] = "running"
                         /\ TopNext(t).phase = "mid"
                         /\ Held(t)[1].ok
                         /\ as_option(Held(t)[1].v).ok
                         /\ as_option(Held(t)[1].v).s
                               = << get_var(prev.args[1], L, variables).v >>
                   /\ (prev.op = "NONE_OPTIONAL" /\ prev.args[1] = o)
                      => /\ status'[t] = "running"
                         /\ TopNext(t).phase = "mid"
                         /\ Held(t)[1].ok
                         /\ as_option(Held(t)[1].v).ok
                         /\ as_option(Held(t)[1].v).s = <<>>
          /\ (Executes(t, {"UNPACK_OPTIONAL", "HAS_OPTIONAL"}) /\ Top(t).phase = "mid")
             => LET cmd == TopNext(t).cmd
                    r == cmd.args[2]
                    content == as_option(Held(t)[1].v).s
                IN IF cmd.op = "HAS_OPTIONAL"
                   THEN /\ status'[t] = "running"
                        /\ get_var(r, TopNext(t).locals, variables')
                              = VOk(from_bool(content # <<>>))
                   ELSE IF content # <<>>
                   THEN /\ status'[t] = "running"
                        /\ get_var(r, TopNext(t).locals, variables') = VOk(content[1])
                   ELSE /\ status'[t] = "failed"
                        /\ get_var(r, TopNext(t).locals, variables')
                              = get_var(r, Top(t).locals, variables)]_vars

\* args was packed into o and unpacked into r
C31_Witness ==
    /\ status[0] = "running"
    /\ Top(0).cmd = Cmd("UNPACK_OPTIONAL", <<"o", "r">>)
    /\ Has(variables, "o") /\ Has(variables, "r")
    /\ as_option(variables["o"]).s = <<variables["args"]>>
    /\ variables["r"] = variables["args"]
    /\ Len(variables["r"].items) = 1

\* an initialized Bool, Integer, Char or String, or an Optional of one
IsScalar(v) == v.init /\ v.t.k \in {"Bool", "Integer", "Char", "String"}
Displayable(v) ==
    \/ IsScalar(v)
    \/ /\ v.init /\ v.t.k = "Optional"
       /\ v.t.a[1].k \in {"Bool", "Integer", "Char", "String"}
       /\ \A i \in 1..Len(v.items) : IsScalar(v.items[i])

(* C32: for an initialized Bool, Integer, Char or String v, or an Optional  *)
(* of one, the display string exists and parsing it with the descriptor of  *)
(* v gives v back: SET_VAR of v to its own display string succeeds and      *)
(* leaves v equal to what it was.                                           *)
C32_DisplayParsesBack ==
    [][\A t \in Tasks :
          (/\ Executes(t, {"SET_VAR"})
           /\ Top(t).is_global
           /\ TopNext(t).cmd.args[1] = "v"
           /\ Has(variables, "v")
           /\ Displayable(variables["v"]))
          => /\ to_string(variables["v"]).ok
             /\ JoinSpace(Tail(TopNext(t).cmd.args)) = to_string(variables["v"]).s
                   => /\ status'[t] = "running"
                      /\ variables'["v"] = variables["v"]]_vars

(* C33: for well-formed type texts K and V the text map[K,V] is the type    *)
(* Map(from_name(K), from_name(V)), nested forms included: INIT_VAR with    *)
(* such a text succeeds and declares a variable of that descriptor.         *)
C33_MapTypeTextParses ==
    [][\A t \in Tasks :
          Executes(t, {"INIT_VAR"})
          => \A f \in MapForms :
                TopNext(t).cmd.args[1] = f.name
                => /\ status'[t] = "running"
                   /\ from_name(Chars(f.name)) = TyOk(f.t)
                   /\ get_var(TopNext(t).cmd.args[2], TopNext(t).locals, variables')
                         = VOk(empty_var(f.t))]_vars

\* the step is Function::execute of a called function returning at a RETURN
\* that is one of its commands
ReturnsEarly(t) ==
    /\ ReturnStep(t)
    /\ Top(t).phase = "exec"
    /\ \E cmd \in NextCmds(Top(t)) : cmd.op = "RETURN"

(* C34: when a function body ends through RETURN, the value `result` holds  *)
(* is copied into the result target exactly as at the end of the body: the  *)
(* global table after the return is the one the copy leaves (so a WHILE     *)
(* function that sets result to false and executes RETURN leaves `while`    *)
(* false).                                                                  *)
C34_ReturnCopiesResult ==
    [][\A t \in Tasks :
          (/\ ReturnsEarly(t)
           /\ Top(t).result_var # "null"
           /\ Has(Top(t).locals, "result"))
          => variables' = set_var(Top(t).result_var, Top(t).locals["result"],
                                  Top(t).is_global, FALSE, Top(t).locals,
                                  variables).globals]_vars

\* The blocks of a source, read off its lines: a FUNC line opens a block unless it
\* lies in one, a line lies in a block (as its body or its FUNC_END) when a block
\* was opened before it and no FUNC_END came since; a block is closed by the
\* first FUNC_END after its FUNC.
RECURSIVE IsOpener(_, _)
RECURSIVE Covered(_, _)
IsOpener(src, p) == src[p].op = "FUNC" /\ ~Covered(src, p)
Covered(src, p) ==
    \E i \in 1..(p - 1) :
        IsOpener(src, i) /\ \A j \in (i + 1)..(p - 1) : src[j].op # "FUNC_END"
Closers(src, i) == { j \in (i + 1)..Len(src) : src[j].op = "FUNC_END" }
Closer(src, i) == CHOOSE j \in Closers(src, i) : \A k \in Closers(src, i) : j <= k
ClosedOpeners(src) == { i \in 1..Len(src) : IsOpener(src, i) /\ Closers(src, i) # {} }
InBlock(src, p) == \E i \in ClosedOpeners(src) : i <= p /\ p <= Closer(src, i)
\* the k-th smallest position of a set, and the lines at the positions of a set
Kth(S, k) == CHOOSE p \in S : Cardinality({ q \in S : q < p }) = k - 1
Pick(src, S) == [k \in 1..Cardinality(S) |-> src[Kth(S, k)]]

(* C35: a parsed script partitions its commands: the commands between a     *)
(* FUNC and the next FUNC_END are, in source order, the body of that        *)
(* function; the commands outside these blocks are, in source order, the    *)
(* top-level list, which holds no marker of a closed block; the function    *)
(* table has one entry per FUNC ... FUNC_END block, in source order.        *)
C35_ParsePartitionsTheCommands ==
    (script.parsed /\ script.e = "none" /\ script # Loaded)
    => LET src == script.source
           blocks == ClosedOpeners(src)
       IN /\ script.commands = Pick(src, { p \in 1..Len(src) : ~InBlock(src, p) })
          /\ Len(script.functions) = Cardinality(blocks)
          /\ \A k \in 1..Cardinality(blocks) :
                /\ k <= Len(script.functions)
                /\ script.functions[k].name = src[Kth(blocks, k)].args[2]
                /\ script.functions[k].commands
                      = SubSeq(src, Kth(blocks, k) + 1, Closer(src, Kth(blocks, k)) - 1)

(* C36: TEMP_VAR of a name that already resolves fails with VarInitedError, *)
(* and the variable that was there keeps its value (so that it still        *)
(* resolves after the following command).                                   *)
C36_TempVarOfExistingNameFails ==
    [][\A t \in Tasks :
          (/\ Executes(t, {"TEMP_VAR"})
           /\ Plain(TopNext(t).cmd.args[2])
           /\ get_var(TopNext(t).cmd.args[2], Top(t).locals, variables).ok)
          => /\ FailsWith(t, "VarInitedError")
             /\ get_var(TopNext(t).cmd.args[2], TopNext(t).locals, variables')
                   = get_var(TopNext(t).cmd.args[2], Top(t).locals, variables)]_vars

(* C37: DROP_VAR of an undotted name held by both the local and the global  *)
(* table removes the local entry only, and the name then resolves to the    *)
(* global value; with the global entry alone it removes that one; with      *)
(* neither it fails with UnknownVarError and changes neither table.         *)
C37_DropTakesTheLocalFirst ==
    [][\A t \in Tasks :
          (Executes(t, {"DROP_VAR"}) /\ Plain(TopNext(t).cmd.args[1]))
          => LET n == TopNext(t).cmd.args[1]
                 L == Top(t).locals
             IN IF Has(L, n) /\ Has(variables, n)
                THEN /\ status'[t] = "running"
                     /\ TopNext(t).locals = Remove(L, n)
                     /\ variables' = variables
                     /\ get_var(n, TopNext(t).locals, variables') = VOk(variables[n])
                ELSE IF Has(variables, n)
                THEN /\ status'[t] = "running"
                     /\ TopNext(t).locals = L
                     /\ variables' = Remove(variables, n)
                ELSE IF Has(L, n)
                THEN /\ status'[t] = "running"
                     /\ TopNext(t).locals = Remove(L, n)
                     /\ variables' = variables
                ELSE /\ FailsWith(t, "UnknownVarError")
                     /\ TopNext(t).locals = L
                     /\ variables' = variables]_vars

\* in dropg the first DROP_VAR g took the parameter and left the global g = 5
C37_Witness ==
    /\ status[0] = "running"
    /\ Top(0).fn = "dropg" /\ Top(0).pc = 1 /\ Top(0).phase = "drop"
    /\ Top(0).cmd = Cmd("DROP_VAR", <<"g">>)
    /\ ~Has(Top(0).locals, "g")
    /\ Has(variables, "g") /\ variables["g"] = from_int(Isize(5))

\* the operands of GET_ITEM / GET_SYMBOL / GET_VALUE name an element that is not
\* there: an index below zero or not below the length, a key the map lacks
Missing(op, container, key_var) ==
    CASE op = "GET_ITEM" ->
            /\ as_list(container).ok /\ as_int(key_var).ok
            /\ \/ IsNegative(as_int(key_var).n)
               \/ ~Below(as_usize(as_int(key_var).n), Len(container.items))
      [] op = "GET_SYMBOL" ->
            /\ as_str(container).ok /\ as_int(key_var).ok
            /\ \/ IsNegative(as_int(key_var).n)
               \/ ~Below(as_usize(as_int(key_var).n), Len(container.sc))
      [] op = "GET_VALUE" ->
            /\ IsMap(container)
            /\ \A p \in PairSet(container) : p[1] # key_var

(* C38: GET_ITEM with an index that is negative or not below the length,    *)
(* GET_SYMBOL with an index outside the string and GET_VALUE with a key the *)
(* map lacks end as a failure of the command (an error paired with the      *)
(* command), not as a panic, and leave the result variable as it was.       *)
C38_MissingElementIsAnError ==
    [][\A t \in Tasks :
          (/\ Executes(t, {"GET_ITEM", "GET_SYMBOL", "GET_VALUE"})
           /\ Operand(t, 1, 1).ok
           /\ Operand(t, 2, 2).ok
           /\ Missing(TopNext(t).cmd.op, Operand(t, 1, 1).v, Operand(t, 2, 2).v))
          => /\ status'[t] = "failed"
             /\ error'[t].cmd = TopNext(t).cmd
             /\ get_var(TopNext(t).cmd.args[3], TopNext(t).locals, variables')
                   = get_var(TopNext(t).cmd.args[3], Top(t).locals, variables)]_vars

----------------------------------------------------------------------------
(* The script lock around sleeping and stream calls                        *)

Blocked(t) == Running(t) /\ Top(t).phase = "block"

\* task u is about to read or write variables: it is in the drop pass, between two
\* statements of a command that only reads and writes variables, or at such a command
VarOps == {"INIT_VAR", "SET_VAR", "COPY_VAR", "MOVE_VAR", "DROP_VAR", "HAS_VAR", "ADD_INT"}
AtVariableStep(u) ==
    /\ Running(u)
    /\ \/ Top(u).phase = "drop"
       \/ Top(u).phase = "mid" /\ Top(u).cmd.op \in VarOps
       \/ Top(u).phase = "exec" /\ \E cmd \in NextCmds(Top(u)) : cmd.op \in VarOps
VariableStep(u) == ExecCommand(u) \/ DropPass(u)

(* C39: a task that is inside thread::sleep of SLEEP, or inside the stream *)
(* call of WRITE, READ or READ_ALL, holds no guard of the script lock, and *)
(* every other task that is about to read or write variables can do so    *)
(* (unless a task that panicked with the guard has poisoned the lock).     *)
C39_NoScriptLockWhileBlocked ==
    \A t \in Tasks :
        Blocked(t) =>
            /\ Top(t).cmd.op \in BlockingOps
            /\ ~Top(t).guard
            /\ \A u \in Tasks \ {t} :
                  (AtVariableStep(u) /\ ~Poisoned) => ENABLED VariableStep(u)

\* main sleeps in SLEEP n, and n is no longer what main read before it went to sleep:
\* the spawned task completed its ADD_INT n k meanwhile
C39_Witness ==
    /\ Blocked(0)
    /\ Top(0).cmd.op = "SLEEP"
    /\ Has(variables, "n")
    /\ Top(0).held[1].ok
    /\ variables["n"] # Top(0).held[1].v

----------------------------------------------------------------------------
(* Two predicate loops in two tasks                                        *)

\* task t is in WHILE, its function has returned and the condition is read next
AwaitsCheck(t) ==
    /\ Running(t)
    /\ Top(t).phase = "wait"
    /\ Top(t).cmd.op = "WHILE"
    /\ Top(t).loop.pending = <<>>

\* the step is task u's WHILE writing its condition: true when the command starts, the
\* result of its function when an invocation ends
WhileWrites(u) ==
    \/ BeginStep(u, "WHILE")
    \/ ReturnStep(u) /\ Caller(u).cmd.op = "WHILE" /\ Caller(u).phase = "wait"

(* C40: while a task's WHILE waits to read its condition, the condition it *)
(* will read is not changed by what the WHILE of another task writes: not  *)
(* by that loop starting, nor by the result of that loop's function.       *)
C40_LoopsDoNotShareTheCondition ==
    [][\A t \in Tasks : \A u \in Tasks \ {t} :
          (AwaitsCheck(t) /\ WhileWrites(u)) =>
              get_var("while", Top(t).locals, variables')
                  = get_var("while", Top(t).locals, variables)]_vars

====
